---------------------------- MODULE Spec2Model ----------------------------
(***************************************************************************)
(* A model of web-text-extractor (src/main.py): the URL validator, the     *)
(* output namer, the tag-stripping and entity-decoding passes, the retry   *)
(* policy of the HTTP session, and the batch loop of WebTextExtractor.     *)
(*                                                                         *)
(* A Python str is a sequence of one-character strings, so that slicing,   *)
(* searching and concatenation are computed as the code computes them.     *)
(***************************************************************************)
EXTENDS Integers, Sequences, FiniteSets, TLC

(***************************************************************************)
(* Bounds of the model.                                                    *)
(***************************************************************************)
\* the longest input file, in lines
MaxLines == 2
\* the largest line index handed to generate_output_name in NameSpec
MaxIndex == 11
\* the longest readability output, in fragments, in CleanSpec
MaxFragments == 3

(***************************************************************************)
(* Strings.                                                                *)
(***************************************************************************)
\* A character that a string of this language cannot hold is written as the
\* one-character string "U+" followed by its code point in hexadecimal, at
\* least four digits: the grave accent is "U+0060", a no-break space "U+00A0".
HEX_UPPER ==
   << "0", "1", "2", "3", "4", "5", "6", "7",
      "8", "9", "A", "B", "C", "D", "E", "F" >>

RECURSIVE HexStr(_, _)
HexStr(n, width) ==
   IF n < 16 /\ width <= 1 THEN HEX_UPPER[n + 1]
   ELSE HexStr(n \div 16, width - 1) \o HEX_UPPER[(n % 16) + 1]

\* the printable ASCII characters, in code order from 32
PRINTABLE ==
   << " ", "!", "\"", "#", "$", "%", "&", "'", "(", ")", "*", "+",
      ",", "-", ".", "/", "0", "1", "2", "3", "4", "5", "6", "7",
      "8", "9", ":", ";", "<", "=", ">", "?", "@", "A", "B", "C",
      "D", "E", "F", "G", "H", "I", "J", "K", "L", "M", "N", "O",
      "P", "Q", "R", "S", "T", "U", "V", "W", "X", "Y", "Z", "[",
      "\\", "]", "^", "_", "U+0060", "a", "b", "c", "d", "e", "f", "g",
      "h", "i", "j", "k", "l", "m", "n", "o", "p", "q", "r", "s",
      "t", "u", "v", "w", "x", "y", "z", "{", "|", "}", "~" >>

\* chr(n)
Chr(n) ==
   CASE n = 9 -> "\t"
     [] n = 10 -> "\n"
     [] n = 12 -> "\f"
     [] n = 13 -> "\r"
     [] n \in 32..126 -> PRINTABLE[n - 31]
     [] OTHER -> "U+" \o HexStr(n, 4)

\* the code points lo..hi by character
RECURSIVE ord_table(_, _)
ord_table(lo, hi) ==
   IF lo = hi THEN Chr(lo) :> lo
   ELSE ord_table(lo, (lo + hi) \div 2) @@ ord_table(((lo + hi) \div 2) + 1, hi)

\* ord of the characters U+0000..U+00FF, tabulated
ORD_LATIN1 == ord_table(0, 255)

LATIN1 == DOMAIN ORD_LATIN1

\* ord(c)
Ord(c) ==
   IF c \in LATIN1 THEN ORD_LATIN1[c]
   ELSE CHOOSE n \in 256..1114111 : Chr(n) = c

\* s[i:] with a 1-based i
From(s, i) == SubSeq(s, i, Len(s))

\* s.find(c, start) + 1: the first position >= start holding c, 0 when none
Find(s, c, start) ==
   LET hits == {k \in start..Len(s) : s[k] = c}
   IN  IF hits = {} THEN 0 ELSE CHOOSE k \in hits : \A m \in hits : k <= m

\* c in s
Contains(s, c) == \E k \in 1..Len(s) : s[k] = c

\* str.strip() with no argument strips at both ends the characters c with
\* c.isspace()
WHITESPACE ==
   {"\t", "\n", "U+000B", "\f", "\r", "U+001C", "U+001D", "U+001E",
    "U+001F", " ", "U+0085", "U+00A0", "U+1680", "U+2000", "U+2001",
    "U+2002", "U+2003", "U+2004", "U+2005", "U+2006", "U+2007", "U+2008",
    "U+2009", "U+200A", "U+2028", "U+2029", "U+202F", "U+205F", "U+3000"}

RECURSIVE lstrip(_, _)
lstrip(s, chars) ==
   IF s # <<>> /\ Head(s) \in chars THEN lstrip(Tail(s), chars) ELSE s

RECURSIVE rstrip(_, _)
rstrip(s, chars) ==
   IF s # <<>> /\ s[Len(s)] \in chars
   THEN rstrip(SubSeq(s, 1, Len(s) - 1), chars) ELSE s

strip(s) == rstrip(lstrip(s, WHITESPACE), WHITESPACE)

\* s.replace(c, "") for each c of chars
remove(s, chars) == SelectSeq(s, LAMBDA c : c \notin chars)

\* str(n) for n >= 0, as f"{index}" formats it
RECURSIVE IntToStr(_)
IntToStr(n) ==
   IF n < 10 THEN <<Chr(48 + n)>>
   ELSE IntToStr(n \div 10) \o <<Chr(48 + (n % 10))>>

\* dict(items)
entry(pair) == pair[1] :> pair[2]

RECURSIVE dict(_)
dict(items) ==
   IF Len(items) = 1 THEN entry(items[1])
   ELSE dict(SubSeq(items, 1, Len(items) \div 2))
        @@ dict(SubSeq(items, (Len(items) \div 2) + 1, Len(items)))

\* "".join(parts)
RECURSIVE concat(_)
concat(parts) ==
   IF parts = <<>> THEN <<>>
   ELSE IF Len(parts) = 1 THEN parts[1]
        ELSE concat(SubSeq(parts, 1, Len(parts) \div 2))
             \o concat(SubSeq(parts, (Len(parts) \div 2) + 1, Len(parts)))

(***************************************************************************)
(* str.lower(), with the tables of the Unicode database of Python 3.11     *)
(* (Unicode 14.0).                                                         *)
(***************************************************************************)
\* the characters str.lower() changes, each with what it becomes
lower_items ==
   <<
    <<"A", <<"a">>>>, <<"B", <<"b">>>>, <<"C", <<"c">>>>, <<"D", <<"d">>>>,
    <<"E", <<"e">>>>, <<"F", <<"f">>>>, <<"G", <<"g">>>>, <<"H", <<"h">>>>,
    <<"I", <<"i">>>>, <<"J", <<"j">>>>, <<"K", <<"k">>>>, <<"L", <<"l">>>>,
    <<"M", <<"m">>>>, <<"N", <<"n">>>>, <<"O", <<"o">>>>, <<"P", <<"p">>>>,
    <<"Q", <<"q">>>>, <<"R", <<"r">>>>, <<"S", <<"s">>>>, <<"T", <<"t">>>>,
    <<"U", <<"u">>>>, <<"V", <<"v">>>>, <<"W", <<"w">>>>, <<"X", <<"x">>>>,
    <<"Y", <<"y">>>>, <<"Z", <<"z">>>>, <<"U+00C0", <<"U+00E0">>>>,
    <<"U+00C1", <<"U+00E1">>>>, <<"U+00C2", <<"U+00E2">>>>,
    <<"U+00C3", <<"U+00E3">>>>, <<"U+00C4", <<"U+00E4">>>>,
    <<"U+00C5", <<"U+00E5">>>>, <<"U+00C6", <<"U+00E6">>>>,
    <<"U+00C7", <<"U+00E7">>>>, <<"U+00C8", <<"U+00E8">>>>,
    <<"U+00C9", <<"U+00E9">>>>, <<"U+00CA", <<"U+00EA">>>>,
    <<"U+00CB", <<"U+00EB">>>>, <<"U+00CC", <<"U+00EC">>>>,
    <<"U+00CD", <<"U+00ED">>>>, <<"U+00CE", <<"U+00EE">>>>,
    <<"U+00CF", <<"U+00EF">>>>, <<"U+00D0", <<"U+00F0">>>>,
    <<"U+00D1", <<"U+00F1">>>>, <<"U+00D2", <<"U+00F2">>>>,
    <<"U+00D3", <<"U+00F3">>>>, <<"U+00D4", <<"U+00F4">>>>,
    <<"U+00D5", <<"U+00F5">>>>, <<"U+00D6", <<"U+00F6">>>>,
    <<"U+00D8", <<"U+00F8">>>>, <<"U+00D9", <<"U+00F9">>>>,
    <<"U+00DA", <<"U+00FA">>>>, <<"U+00DB", <<"U+00FB">>>>,
    <<"U+00DC", <<"U+00FC">>>>, <<"U+00DD", <<"U+00FD">>>>,
    <<"U+00DE", <<"U+00FE">>>>, <<"U+0100", <<"U+0101">>>>,
    <<"U+0102", <<"U+0103">>>>, <<"U+0104", <<"U+0105">>>>,
    <<"U+0106", <<"U+0107">>>>, <<"U+0108", <<"U+0109">>>>,
    <<"U+010A", <<"U+010B">>>>, <<"U+010C", <<"U+010D">>>>,
    <<"U+010E", <<"U+010F">>>>, <<"U+0110", <<"U+0111">>>>,
    <<"U+0112", <<"U+0113">>>>, <<"U+0114", <<"U+0115">>>>,
    <<"U+0116", <<"U+0117">>>>, <<"U+0118", <<"U+0119">>>>,
    <<"U+011A", <<"U+011B">>>>, <<"U+011C", <<"U+011D">>>>,
    <<"U+011E", <<"U+011F">>>>, <<"U+0120", <<"U+0121">>>>,
    <<"U+0122", <<"U+0123">>>>, <<"U+0124", <<"U+0125">>>>,
    <<"U+0126", <<"U+0127">>>>, <<"U+0128", <<"U+0129">>>>,
    <<"U+012A", <<"U+012B">>>>, <<"U+012C", <<"U+012D">>>>,
    <<"U+012E", <<"U+012F">>>>, <<"U+0130", <<"i", "U+0307">>>>,
    <<"U+0132", <<"U+0133">>>>, <<"U+0134", <<"U+0135">>>>,
    <<"U+0136", <<"U+0137">>>>, <<"U+0139", <<"U+013A">>>>,
    <<"U+013B", <<"U+013C">>>>, <<"U+013D", <<"U+013E">>>>,
    <<"U+013F", <<"U+0140">>>>, <<"U+0141", <<"U+0142">>>>,
    <<"U+0143", <<"U+0144">>>>, <<"U+0145", <<"U+0146">>>>,
    <<"U+0147", <<"U+0148">>>>, <<"U+014A", <<"U+014B">>>>,
    <<"U+014C", <<"U+014D">>>>, <<"U+014E", <<"U+014F">>>>,
    <<"U+0150", <<"U+0151">>>>, <<"U+0152", <<"U+0153">>>>,
    <<"U+0154", <<"U+0155">>>>, <<"U+0156", <<"U+0157">>>>,
    <<"U+0158", <<"U+0159">>>>, <<"U+015A", <<"U+015B">>>>,
    <<"U+015C", <<"U+015D">>>>, <<"U+015E", <<"U+015F">>>>,
    <<"U+0160", <<"U+0161">>>>, <<"U+0162", <<"U+0163">>>>,
    <<"U+0164", <<"U+0165">>>>, <<"U+0166", <<"U+0167">>>>,
    <<"U+0168", <<"U+0169">>>>, <<"U+016A", <<"U+016B">>>>,
    <<"U+016C", <<"U+016D">>>>, <<"U+016E", <<"U+016F">>>>,
    <<"U+0170", <<"U+0171">>>>, <<"U+0172", <<"U+0173">>>>,
    <<"U+0174", <<"U+0175">>>>, <<"U+0176", <<"U+0177">>>>,
    <<"U+0178", <<"U+00FF">>>>, <<"U+0179", <<"U+017A">>>>,
    <<"U+017B", <<"U+017C">>>>, <<"U+017D", <<"U+017E">>>>,
    <<"U+0181", <<"U+0253">>>>, <<"U+0182", <<"U+0183">>>>,
    <<"U+0184", <<"U+0185">>>>, <<"U+0186", <<"U+0254">>>>,
    <<"U+0187", <<"U+0188">>>>, <<"U+0189", <<"U+0256">>>>,
    <<"U+018A", <<"U+0257">>>>, <<"U+018B", <<"U+018C">>>>,
    <<"U+018E", <<"U+01DD">>>>, <<"U+018F", <<"U+0259">>>>,
    <<"U+0190", <<"U+025B">>>>, <<"U+0191", <<"U+0192">>>>,
    <<"U+0193", <<"U+0260">>>>, <<"U+0194", <<"U+0263">>>>,
    <<"U+0196", <<"U+0269">>>>, <<"U+0197", <<"U+0268">>>>,
    <<"U+0198", <<"U+0199">>>>, <<"U+019C", <<"U+026F">>>>,
    <<"U+019D", <<"U+0272">>>>, <<"U+019F", <<"U+0275">>>>,
    <<"U+01A0", <<"U+01A1">>>>, <<"U+01A2", <<"U+01A3">>>>,
    <<"U+01A4", <<"U+01A5">>>>, <<"U+01A6", <<"U+0280">>>>,
    <<"U+01A7", <<"U+01A8">>>>, <<"U+01A9", <<"U+0283">>>>,
    <<"U+01AC", <<"U+01AD">>>>, <<"U+01AE", <<"U+0288">>>>,
    <<"U+01AF", <<"U+01B0">>>>, <<"U+01B1", <<"U+028A">>>>,
    <<"U+01B2", <<"U+028B">>>>, <<"U+01B3", <<"U+01B4">>>>,
    <<"U+01B5", <<"U+01B6">>>>, <<"U+01B7", <<"U+0292">>>>,
    <<"U+01B8", <<"U+01B9">>>>, <<"U+01BC", <<"U+01BD">>>>,
    <<"U+01C4", <<"U+01C6">>>>, <<"U+01C5", <<"U+01C6">>>>,
    <<"U+01C7", <<"U+01C9">>>>, <<"U+01C8", <<"U+01C9">>>>,
    <<"U+01CA", <<"U+01CC">>>>, <<"U+01CB", <<"U+01CC">>>>,
    <<"U+01CD", <<"U+01CE">>>>, <<"U+01CF", <<"U+01D0">>>>,
    <<"U+01D1", <<"U+01D2">>>>, <<"U+01D3", <<"U+01D4">>>>,
    <<"U+01D5", <<"U+01D6">>>>, <<"U+01D7", <<"U+01D8">>>>,
    <<"U+01D9", <<"U+01DA">>>>, <<"U+01DB", <<"U+01DC">>>>,
    <<"U+01DE", <<"U+01DF">>>>, <<"U+01E0", <<"U+01E1">>>>,
    <<"U+01E2", <<"U+01E3">>>>, <<"U+01E4", <<"U+01E5">>>>,
    <<"U+01E6", <<"U+01E7">>>>, <<"U+01E8", <<"U+01E9">>>>,
    <<"U+01EA", <<"U+01EB">>>>, <<"U+01EC", <<"U+01ED">>>>,
    <<"U+01EE", <<"U+01EF">>>>, <<"U+01F1", <<"U+01F3">>>>,
    <<"U+01F2", <<"U+01F3">>>>, <<"U+01F4", <<"U+01F5">>>>,
    <<"U+01F6", <<"U+0195">>>>, <<"U+01F7", <<"U+01BF">>>>,
    <<"U+01F8", <<"U+01F9">>>>, <<"U+01FA", <<"U+01FB">>>>,
    <<"U+01FC", <<"U+01FD">>>>, <<"U+01FE", <<"U+01FF">>>>,
    <<"U+0200", <<"U+0201">>>>, <<"U+0202", <<"U+0203">>>>,
    <<"U+0204", <<"U+0205">>>>, <<"U+0206", <<"U+0207">>>>,
    <<"U+0208", <<"U+0209">>>>, <<"U+020A", <<"U+020B">>>>,
    <<"U+020C", <<"U+020D">>>>, <<"U+020E", <<"U+020F">>>>,
    <<"U+0210", <<"U+0211">>>>, <<"U+0212", <<"U+0213">>>>,
    <<"U+0214", <<"U+0215">>>>, <<"U+0216", <<"U+0217">>>>,
    <<"U+0218", <<"U+0219">>>>, <<"U+021A", <<"U+021B">>>>,
    <<"U+021C", <<"U+021D">>>>, <<"U+021E", <<"U+021F">>>>,
    <<"U+0220", <<"U+019E">>>>, <<"U+0222", <<"U+0223">>>>,
    <<"U+0224", <<"U+0225">>>>, <<"U+0226", <<"U+0227">>>>,
    <<"U+0228", <<"U+0229">>>>, <<"U+022A", <<"U+022B">>>>,
    <<"U+022C", <<"U+022D">>>>, <<"U+022E", <<"U+022F">>>>,
    <<"U+0230", <<"U+0231">>>>, <<"U+0232", <<"U+0233">>>>,
    <<"U+023A", <<"U+2C65">>>>, <<"U+023B", <<"U+023C">>>>,
    <<"U+023D", <<"U+019A">>>>, <<"U+023E", <<"U+2C66">>>>,
    <<"U+0241", <<"U+0242">>>>, <<"U+0243", <<"U+0180">>>>,
    <<"U+0244", <<"U+0289">>>>, <<"U+0245", <<"U+028C">>>>,
    <<"U+0246", <<"U+0247">>>>, <<"U+0248", <<"U+0249">>>>,
    <<"U+024A", <<"U+024B">>>>, <<"U+024C", <<"U+024D">>>>,
    <<"U+024E", <<"U+024F">>>>, <<"U+0370", <<"U+0371">>>>,
    <<"U+0372", <<"U+0373">>>>, <<"U+0376", <<"U+0377">>>>,
    <<"U+037F", <<"U+03F3">>>>, <<"U+0386", <<"U+03AC">>>>,
    <<"U+0388", <<"U+03AD">>>>, <<"U+0389", <<"U+03AE">>>>,
    <<"U+038A", <<"U+03AF">>>>, <<"U+038C", <<"U+03CC">>>>,
    <<"U+038E", <<"U+03CD">>>>, <<"U+038F", <<"U+03CE">>>>,
    <<"U+0391", <<"U+03B1">>>>, <<"U+0392", <<"U+03B2">>>>,
    <<"U+0393", <<"U+03B3">>>>, <<"U+0394", <<"U+03B4">>>>,
    <<"U+0395", <<"U+03B5">>>>, <<"U+0396", <<"U+03B6">>>>,
    <<"U+0397", <<"U+03B7">>>>, <<"U+0398", <<"U+03B8">>>>,
    <<"U+0399", <<"U+03B9">>>>, <<"U+039A", <<"U+03BA">>>>,
    <<"U+039B", <<"U+03BB">>>>, <<"U+039C", <<"U+03BC">>>>,
    <<"U+039D", <<"U+03BD">>>>, <<"U+039E", <<"U+03BE">>>>,
    <<"U+039F", <<"U+03BF">>>>, <<"U+03A0", <<"U+03C0">>>>,
    <<"U+03A1", <<"U+03C1">>>>, <<"U+03A3", <<"U+03C3">>>>,
    <<"U+03A4", <<"U+03C4">>>>, <<"U+03A5", <<"U+03C5">>>>,
    <<"U+03A6", <<"U+03C6">>>>, <<"U+03A7", <<"U+03C7">>>>,
    <<"U+03A8", <<"U+03C8">>>>, <<"U+03A9", <<"U+03C9">>>>,
    <<"U+03AA", <<"U+03CA">>>>, <<"U+03AB", <<"U+03CB">>>>,
    <<"U+03CF", <<"U+03D7">>>>, <<"U+03D8", <<"U+03D9">>>>,
    <<"U+03DA", <<"U+03DB">>>>, <<"U+03DC", <<"U+03DD">>>>,
    <<"U+03DE", <<"U+03DF">>>>, <<"U+03E0", <<"U+03E1">>>>,
    <<"U+03E2", <<"U+03E3">>>>, <<"U+03E4", <<"U+03E5">>>>,
    <<"U+03E6", <<"U+03E7">>>>, <<"U+03E8", <<"U+03E9">>>>,
    <<"U+03EA", <<"U+03EB">>>>, <<"U+03EC", <<"U+03ED">>>>,
    <<"U+03EE", <<"U+03EF">>>>, <<"U+03F4", <<"U+03B8">>>>,
    <<"U+03F7", <<"U+03F8">>>>, <<"U+03F9", <<"U+03F2">>>>,
    <<"U+03FA", <<"U+03FB">>>>, <<"U+03FD", <<"U+037B">>>>,
    <<"U+03FE", <<"U+037C">>>>, <<"U+03FF", <<"U+037D">>>>,
    <<"U+0400", <<"U+0450">>>>, <<"U+0401", <<"U+0451">>>>,
    <<"U+0402", <<"U+0452">>>>, <<"U+0403", <<"U+0453">>>>,
    <<"U+0404", <<"U+0454">>>>, <<"U+0405", <<"U+0455">>>>,
    <<"U+0406", <<"U+0456">>>>, <<"U+0407", <<"U+0457">>>>,
    <<"U+0408", <<"U+0458">>>>, <<"U+0409", <<"U+0459">>>>,
    <<"U+040A", <<"U+045A">>>>, <<"U+040B", <<"U+045B">>>>,
    <<"U+040C", <<"U+045C">>>>, <<"U+040D", <<"U+045D">>>>,
    <<"U+040E", <<"U+045E">>>>, <<"U+040F", <<"U+045F">>>>,
    <<"U+0410", <<"U+0430">>>>, <<"U+0411", <<"U+0431">>>>,
    <<"U+0412", <<"U+0432">>>>, <<"U+0413", <<"U+0433">>>>,
    <<"U+0414", <<"U+0434">>>>, <<"U+0415", <<"U+0435">>>>,
    <<"U+0416", <<"U+0436">>>>, <<"U+0417", <<"U+0437">>>>,
    <<"U+0418", <<"U+0438">>>>, <<"U+0419", <<"U+0439">>>>,
    <<"U+041A", <<"U+043A">>>>, <<"U+041B", <<"U+043B">>>>,
    <<"U+041C", <<"U+043C">>>>, <<"U+041D", <<"U+043D">>>>,
    <<"U+041E", <<"U+043E">>>>, <<"U+041F", <<"U+043F">>>>,
    <<"U+0420", <<"U+0440">>>>, <<"U+0421", <<"U+0441">>>>,
    <<"U+0422", <<"U+0442">>>>, <<"U+0423", <<"U+0443">>>>,
    <<"U+0424", <<"U+0444">>>>, <<"U+0425", <<"U+0445">>>>,
    <<"U+0426", <<"U+0446">>>>, <<"U+0427", <<"U+0447">>>>,
    <<"U+0428", <<"U+0448">>>>, <<"U+0429", <<"U+0449">>>>,
    <<"U+042A", <<"U+044A">>>>, <<"U+042B", <<"U+044B">>>>,
    <<"U+042C", <<"U+044C">>>>, <<"U+042D", <<"U+044D">>>>,
    <<"U+042E", <<"U+044E">>>>, <<"U+042F", <<"U+044F">>>>,
    <<"U+0460", <<"U+0461">>>>, <<"U+0462", <<"U+0463">>>>,
    <<"U+0464", <<"U+0465">>>>, <<"U+0466", <<"U+0467">>>>,
    <<"U+0468", <<"U+0469">>>>, <<"U+046A", <<"U+046B">>>>,
    <<"U+046C", <<"U+046D">>>>, <<"U+046E", <<"U+046F">>>>,
    <<"U+0470", <<"U+0471">>>>, <<"U+0472", <<"U+0473">>>>,
    <<"U+0474", <<"U+0475">>>>, <<"U+0476", <<"U+0477">>>>,
    <<"U+0478", <<"U+0479">>>>, <<"U+047A", <<"U+047B">>>>,
    <<"U+047C", <<"U+047D">>>>, <<"U+047E", <<"U+047F">>>>,
    <<"U+0480", <<"U+0481">>>>, <<"U+048A", <<"U+048B">>>>,
    <<"U+048C", <<"U+048D">>>>, <<"U+048E", <<"U+048F">>>>,
    <<"U+0490", <<"U+0491">>>>, <<"U+0492", <<"U+0493">>>>,
    <<"U+0494", <<"U+0495">>>>, <<"U+0496", <<"U+0497">>>>,
    <<"U+0498", <<"U+0499">>>>, <<"U+049A", <<"U+049B">>>>,
    <<"U+049C", <<"U+049D">>>>, <<"U+049E", <<"U+049F">>>>,
    <<"U+04A0", <<"U+04A1">>>>, <<"U+04A2", <<"U+04A3">>>>,
    <<"U+04A4", <<"U+04A5">>>>, <<"U+04A6", <<"U+04A7">>>>,
    <<"U+04A8", <<"U+04A9">>>>, <<"U+04AA", <<"U+04AB">>>>,
    <<"U+04AC", <<"U+04AD">>>>, <<"U+04AE", <<"U+04AF">>>>,
    <<"U+04B0", <<"U+04B1">>>>, <<"U+04B2", <<"U+04B3">>>>,
    <<"U+04B4", <<"U+04B5">>>>, <<"U+04B6", <<"U+04B7">>>>,
    <<"U+04B8", <<"U+04B9">>>>, <<"U+04BA", <<"U+04BB">>>>,
    <<"U+04BC", <<"U+04BD">>>>, <<"U+04BE", <<"U+04BF">>>>,
    <<"U+04C0", <<"U+04CF">>>>, <<"U+04C1", <<"U+04C2">>>>,
    <<"U+04C3", <<"U+04C4">>>>, <<"U+04C5", <<"U+04C6">>>>,
    <<"U+04C7", <<"U+04C8">>>>, <<"U+04C9", <<"U+04CA">>>>,
    <<"U+04CB", <<"U+04CC">>>>, <<"U+04CD", <<"U+04CE">>>>,
    <<"U+04D0", <<"U+04D1">>>>, <<"U+04D2", <<"U+04D3">>>>,
    <<"U+04D4", <<"U+04D5">>>>, <<"U+04D6", <<"U+04D7">>>>,
    <<"U+04D8", <<"U+04D9">>>>, <<"U+04DA", <<"U+04DB">>>>,
    <<"U+04DC", <<"U+04DD">>>>, <<"U+04DE", <<"U+04DF">>>>,
    <<"U+04E0", <<"U+04E1">>>>, <<"U+04E2", <<"U+04E3">>>>,
    <<"U+04E4", <<"U+04E5">>>>, <<"U+04E6", <<"U+04E7">>>>,
    <<"U+04E8", <<"U+04E9">>>>, <<"U+04EA", <<"U+04EB">>>>,
    <<"U+04EC", <<"U+04ED">>>>, <<"U+04EE", <<"U+04EF">>>>,
    <<"U+04F0", <<"U+04F1">>>>, <<"U+04F2", <<"U+04F3">>>>,
    <<"U+04F4", <<"U+04F5">>>>, <<"U+04F6", <<"U+04F7">>>>,
    <<"U+04F8", <<"U+04F9">>>>, <<"U+04FA", <<"U+04FB">>>>,
    <<"U+04FC", <<"U+04FD">>>>, <<"U+04FE", <<"U+04FF">>>>,
    <<"U+0500", <<"U+0501">>>>, <<"U+0502", <<"U+0503">>>>,
    <<"U+0504", <<"U+0505">>>>, <<"U+0506", <<"U+0507">>>>,
    <<"U+0508", <<"U+0509">>>>, <<"U+050A", <<"U+050B">>>>,
    <<"U+050C", <<"U+050D">>>>, <<"U+050E", <<"U+050F">>>>,
    <<"U+0510", <<"U+0511">>>>, <<"U+0512", <<"U+0513">>>>,
    <<"U+0514", <<"U+0515">>>>, <<"U+0516", <<"U+0517">>>>,
    <<"U+0518", <<"U+0519">>>>, <<"U+051A", <<"U+051B">>>>,
    <<"U+051C", <<"U+051D">>>>, <<"U+051E", <<"U+051F">>>>,
    <<"U+0520", <<"U+0521">>>>, <<"U+0522", <<"U+0523">>>>,
    <<"U+0524", <<"U+0525">>>>, <<"U+0526", <<"U+0527">>>>,
    <<"U+0528", <<"U+0529">>>>, <<"U+052A", <<"U+052B">>>>,
    <<"U+052C", <<"U+052D">>>>, <<"U+052E", <<"U+052F">>>>,
    <<"U+0531", <<"U+0561">>>>, <<"U+0532", <<"U+0562">>>>,
    <<"U+0533", <<"U+0563">>>>, <<"U+0534", <<"U+0564">>>>,
    <<"U+0535", <<"U+0565">>>>, <<"U+0536", <<"U+0566">>>>,
    <<"U+0537", <<"U+0567">>>>, <<"U+0538", <<"U+0568">>>>,
    <<"U+0539", <<"U+0569">>>>, <<"U+053A", <<"U+056A">>>>,
    <<"U+053B", <<"U+056B">>>>, <<"U+053C", <<"U+056C">>>>,
    <<"U+053D", <<"U+056D">>>>, <<"U+053E", <<"U+056E">>>>,
    <<"U+053F", <<"U+056F">>>>, <<"U+0540", <<"U+0570">>>>,
    <<"U+0541", <<"U+0571">>>>, <<"U+0542", <<"U+0572">>>>,
    <<"U+0543", <<"U+0573">>>>, <<"U+0544", <<"U+0574">>>>,
    <<"U+0545", <<"U+0575">>>>, <<"U+0546", <<"U+0576">>>>,
    <<"U+0547", <<"U+0577">>>>, <<"U+0548", <<"U+0578">>>>,
    <<"U+0549", <<"U+0579">>>>, <<"U+054A", <<"U+057A">>>>,
    <<"U+054B", <<"U+057B">>>>, <<"U+054C", <<"U+057C">>>>,
    <<"U+054D", <<"U+057D">>>>, <<"U+054E", <<"U+057E">>>>,
    <<"U+054F", <<"U+057F">>>>, <<"U+0550", <<"U+0580">>>>,
    <<"U+0551", <<"U+0581">>>>, <<"U+0552", <<"U+0582">>>>,
    <<"U+0553", <<"U+0583">>>>, <<"U+0554", <<"U+0584">>>>,
    <<"U+0555", <<"U+0585">>>>, <<"U+0556", <<"U+0586">>>>,
    <<"U+10A0", <<"U+2D00">>>>, <<"U+10A1", <<"U+2D01">>>>,
    <<"U+10A2", <<"U+2D02">>>>, <<"U+10A3", <<"U+2D03">>>>,
    <<"U+10A4", <<"U+2D04">>>>, <<"U+10A5", <<"U+2D05">>>>,
    <<"U+10A6", <<"U+2D06">>>>, <<"U+10A7", <<"U+2D07">>>>,
    <<"U+10A8", <<"U+2D08">>>>, <<"U+10A9", <<"U+2D09">>>>,
    <<"U+10AA", <<"U+2D0A">>>>, <<"U+10AB", <<"U+2D0B">>>>,
    <<"U+10AC", <<"U+2D0C">>>>, <<"U+10AD", <<"U+2D0D">>>>,
    <<"U+10AE", <<"U+2D0E">>>>, <<"U+10AF", <<"U+2D0F">>>>,
    <<"U+10B0", <<"U+2D10">>>>, <<"U+10B1", <<"U+2D11">>>>,
    <<"U+10B2", <<"U+2D12">>>>, <<"U+10B3", <<"U+2D13">>>>,
    <<"U+10B4", <<"U+2D14">>>>, <<"U+10B5", <<"U+2D15">>>>,
    <<"U+10B6", <<"U+2D16">>>>, <<"U+10B7", <<"U+2D17">>>>,
    <<"U+10B8", <<"U+2D18">>>>, <<"U+10B9", <<"U+2D19">>>>,
    <<"U+10BA", <<"U+2D1A">>>>, <<"U+10BB", <<"U+2D1B">>>>,
    <<"U+10BC", <<"U+2D1C">>>>, <<"U+10BD", <<"U+2D1D">>>>,
    <<"U+10BE", <<"U+2D1E">>>>, <<"U+10BF", <<"U+2D1F">>>>,
    <<"U+10C0", <<"U+2D20">>>>, <<"U+10C1", <<"U+2D21">>>>,
    <<"U+10C2", <<"U+2D22">>>>, <<"U+10C3", <<"U+2D23">>>>,
    <<"U+10C4", <<"U+2D24">>>>, <<"U+10C5", <<"U+2D25">>>>,
    <<"U+10C7", <<"U+2D27">>>>, <<"U+10CD", <<"U+2D2D">>>>,
    <<"U+13A0", <<"U+AB70">>>>, <<"U+13A1", <<"U+AB71">>>>,
    <<"U+13A2", <<"U+AB72">>>>, <<"U+13A3", <<"U+AB73">>>>,
    <<"U+13A4", <<"U+AB74">>>>, <<"U+13A5", <<"U+AB75">>>>,
    <<"U+13A6", <<"U+AB76">>>>, <<"U+13A7", <<"U+AB77">>>>,
    <<"U+13A8", <<"U+AB78">>>>, <<"U+13A9", <<"U+AB79">>>>,
    <<"U+13AA", <<"U+AB7A">>>>, <<"U+13AB", <<"U+AB7B">>>>,
    <<"U+13AC", <<"U+AB7C">>>>, <<"U+13AD", <<"U+AB7D">>>>,
    <<"U+13AE", <<"U+AB7E">>>>, <<"U+13AF", <<"U+AB7F">>>>,
    <<"U+13B0", <<"U+AB80">>>>, <<"U+13B1", <<"U+AB81">>>>,
    <<"U+13B2", <<"U+AB82">>>>, <<"U+13B3", <<"U+AB83">>>>,
    <<"U+13B4", <<"U+AB84">>>>, <<"U+13B5", <<"U+AB85">>>>,
    <<"U+13B6", <<"U+AB86">>>>, <<"U+13B7", <<"U+AB87">>>>,
    <<"U+13B8", <<"U+AB88">>>>, <<"U+13B9", <<"U+AB89">>>>,
    <<"U+13BA", <<"U+AB8A">>>>, <<"U+13BB", <<"U+AB8B">>>>,
    <<"U+13BC", <<"U+AB8C">>>>, <<"U+13BD", <<"U+AB8D">>>>,
    <<"U+13BE", <<"U+AB8E">>>>, <<"U+13BF", <<"U+AB8F">>>>,
    <<"U+13C0", <<"U+AB90">>>>, <<"U+13C1", <<"U+AB91">>>>,
    <<"U+13C2", <<"U+AB92">>>>, <<"U+13C3", <<"U+AB93">>>>,
    <<"U+13C4", <<"U+AB94">>>>, <<"U+13C5", <<"U+AB95">>>>,
    <<"U+13C6", <<"U+AB96">>>>, <<"U+13C7", <<"U+AB97">>>>,
    <<"U+13C8", <<"U+AB98">>>>, <<"U+13C9", <<"U+AB99">>>>,
    <<"U+13CA", <<"U+AB9A">>>>, <<"U+13CB", <<"U+AB9B">>>>,
    <<"U+13CC", <<"U+AB9C">>>>, <<"U+13CD", <<"U+AB9D">>>>,
    <<"U+13CE", <<"U+AB9E">>>>, <<"U+13CF", <<"U+AB9F">>>>,
    <<"U+13D0", <<"U+ABA0">>>>, <<"U+13D1", <<"U+ABA1">>>>,
    <<"U+13D2", <<"U+ABA2">>>>, <<"U+13D3", <<"U+ABA3">>>>,
    <<"U+13D4", <<"U+ABA4">>>>, <<"U+13D5", <<"U+ABA5">>>>,
    <<"U+13D6", <<"U+ABA6">>>>, <<"U+13D7", <<"U+ABA7">>>>,
    <<"U+13D8", <<"U+ABA8">>>>, <<"U+13D9", <<"U+ABA9">>>>,
    <<"U+13DA", <<"U+ABAA">>>>, <<"U+13DB", <<"U+ABAB">>>>,
    <<"U+13DC", <<"U+ABAC">>>>, <<"U+13DD", <<"U+ABAD">>>>,
    <<"U+13DE", <<"U+ABAE">>>>, <<"U+13DF", <<"U+ABAF">>>>,
    <<"U+13E0", <<"U+ABB0">>>>, <<"U+13E1", <<"U+ABB1">>>>,
    <<"U+13E2", <<"U+ABB2">>>>, <<"U+13E3", <<"U+ABB3">>>>,
    <<"U+13E4", <<"U+ABB4">>>>, <<"U+13E5", <<"U+ABB5">>>>,
    <<"U+13E6", <<"U+ABB6">>>>, <<"U+13E7", <<"U+ABB7">>>>,
    <<"U+13E8", <<"U+ABB8">>>>, <<"U+13E9", <<"U+ABB9">>>>,
    <<"U+13EA", <<"U+ABBA">>>>, <<"U+13EB", <<"U+ABBB">>>>,
    <<"U+13EC", <<"U+ABBC">>>>, <<"U+13ED", <<"U+ABBD">>>>,
    <<"U+13EE", <<"U+ABBE">>>>, <<"U+13EF", <<"U+ABBF">>>>,
    <<"U+13F0", <<"U+13F8">>>>, <<"U+13F1", <<"U+13F9">>>>,
    <<"U+13F2", <<"U+13FA">>>>, <<"U+13F3", <<"U+13FB">>>>,
    <<"U+13F4", <<"U+13FC">>>>, <<"U+13F5", <<"U+13FD">>>>,
    <<"U+1C90", <<"U+10D0">>>>, <<"U+1C91", <<"U+10D1">>>>,
    <<"U+1C92", <<"U+10D2">>>>, <<"U+1C93", <<"U+10D3">>>>,
    <<"U+1C94", <<"U+10D4">>>>, <<"U+1C95", <<"U+10D5">>>>,
    <<"U+1C96", <<"U+10D6">>>>, <<"U+1C97", <<"U+10D7">>>>,
    <<"U+1C98", <<"U+10D8">>>>, <<"U+1C99", <<"U+10D9">>>>,
    <<"U+1C9A", <<"U+10DA">>>>, <<"U+1C9B", <<"U+10DB">>>>,
    <<"U+1C9C", <<"U+10DC">>>>, <<"U+1C9D", <<"U+10DD">>>>,
    <<"U+1C9E", <<"U+10DE">>>>, <<"U+1C9F", <<"U+10DF">>>>,
    <<"U+1CA0", <<"U+10E0">>>>, <<"U+1CA1", <<"U+10E1">>>>,
    <<"U+1CA2", <<"U+10E2">>>>, <<"U+1CA3", <<"U+10E3">>>>,
    <<"U+1CA4", <<"U+10E4">>>>, <<"U+1CA5", <<"U+10E5">>>>,
    <<"U+1CA6", <<"U+10E6">>>>, <<"U+1CA7", <<"U+10E7">>>>,
    <<"U+1CA8", <<"U+10E8">>>>, <<"U+1CA9", <<"U+10E9">>>>,
    <<"U+1CAA", <<"U+10EA">>>>, <<"U+1CAB", <<"U+10EB">>>>,
    <<"U+1CAC", <<"U+10EC">>>>, <<"U+1CAD", <<"U+10ED">>>>,
    <<"U+1CAE", <<"U+10EE">>>>, <<"U+1CAF", <<"U+10EF">>>>,
    <<"U+1CB0", <<"U+10F0">>>>, <<"U+1CB1", <<"U+10F1">>>>,
    <<"U+1CB2", <<"U+10F2">>>>, <<"U+1CB3", <<"U+10F3">>>>,
    <<"U+1CB4", <<"U+10F4">>>>, <<"U+1CB5", <<"U+10F5">>>>,
    <<"U+1CB6", <<"U+10F6">>>>, <<"U+1CB7", <<"U+10F7">>>>,
    <<"U+1CB8", <<"U+10F8">>>>, <<"U+1CB9", <<"U+10F9">>>>,
    <<"U+1CBA", <<"U+10FA">>>>, <<"U+1CBD", <<"U+10FD">>>>,
    <<"U+1CBE", <<"U+10FE">>>>, <<"U+1CBF", <<"U+10FF">>>>,
    <<"U+1E00", <<"U+1E01">>>>, <<"U+1E02", <<"U+1E03">>>>,
    <<"U+1E04", <<"U+1E05">>>>, <<"U+1E06", <<"U+1E07">>>>,
    <<"U+1E08", <<"U+1E09">>>>, <<"U+1E0A", <<"U+1E0B">>>>,
    <<"U+1E0C", <<"U+1E0D">>>>, <<"U+1E0E", <<"U+1E0F">>>>,
    <<"U+1E10", <<"U+1E11">>>>, <<"U+1E12", <<"U+1E13">>>>,
    <<"U+1E14", <<"U+1E15">>>>, <<"U+1E16", <<"U+1E17">>>>,
    <<"U+1E18", <<"U+1E19">>>>, <<"U+1E1A", <<"U+1E1B">>>>,
    <<"U+1E1C", <<"U+1E1D">>>>, <<"U+1E1E", <<"U+1E1F">>>>,
    <<"U+1E20", <<"U+1E21">>>>, <<"U+1E22", <<"U+1E23">>>>,
    <<"U+1E24", <<"U+1E25">>>>, <<"U+1E26", <<"U+1E27">>>>,
    <<"U+1E28", <<"U+1E29">>>>, <<"U+1E2A", <<"U+1E2B">>>>,
    <<"U+1E2C", <<"U+1E2D">>>>, <<"U+1E2E", <<"U+1E2F">>>>,
    <<"U+1E30", <<"U+1E31">>>>, <<"U+1E32", <<"U+1E33">>>>,
    <<"U+1E34", <<"U+1E35">>>>, <<"U+1E36", <<"U+1E37">>>>,
    <<"U+1E38", <<"U+1E39">>>>, <<"U+1E3A", <<"U+1E3B">>>>,
    <<"U+1E3C", <<"U+1E3D">>>>, <<"U+1E3E", <<"U+1E3F">>>>,
    <<"U+1E40", <<"U+1E41">>>>, <<"U+1E42", <<"U+1E43">>>>,
    <<"U+1E44", <<"U+1E45">>>>, <<"U+1E46", <<"U+1E47">>>>,
    <<"U+1E48", <<"U+1E49">>>>, <<"U+1E4A", <<"U+1E4B">>>>,
    <<"U+1E4C", <<"U+1E4D">>>>, <<"U+1E4E", <<"U+1E4F">>>>,
    <<"U+1E50", <<"U+1E51">>>>, <<"U+1E52", <<"U+1E53">>>>,
    <<"U+1E54", <<"U+1E55">>>>, <<"U+1E56", <<"U+1E57">>>>,
    <<"U+1E58", <<"U+1E59">>>>, <<"U+1E5A", <<"U+1E5B">>>>,
    <<"U+1E5C", <<"U+1E5D">>>>, <<"U+1E5E", <<"U+1E5F">>>>,
    <<"U+1E60", <<"U+1E61">>>>, <<"U+1E62", <<"U+1E63">>>>,
    <<"U+1E64", <<"U+1E65">>>>, <<"U+1E66", <<"U+1E67">>>>,
    <<"U+1E68", <<"U+1E69">>>>, <<"U+1E6A", <<"U+1E6B">>>>,
    <<"U+1E6C", <<"U+1E6D">>>>, <<"U+1E6E", <<"U+1E6F">>>>,
    <<"U+1E70", <<"U+1E71">>>>, <<"U+1E72", <<"U+1E73">>>>,
    <<"U+1E74", <<"U+1E75">>>>, <<"U+1E76", <<"U+1E77">>>>,
    <<"U+1E78", <<"U+1E79">>>>, <<"U+1E7A", <<"U+1E7B">>>>,
    <<"U+1E7C", <<"U+1E7D">>>>, <<"U+1E7E", <<"U+1E7F">>>>,
    <<"U+1E80", <<"U+1E81">>>>, <<"U+1E82", <<"U+1E83">>>>,
    <<"U+1E84", <<"U+1E85">>>>, <<"U+1E86", <<"U+1E87">>>>,
    <<"U+1E88", <<"U+1E89">>>>, <<"U+1E8A", <<"U+1E8B">>>>,
    <<"U+1E8C", <<"U+1E8D">>>>, <<"U+1E8E", <<"U+1E8F">>>>,
    <<"U+1E90", <<"U+1E91">>>>, <<"U+1E92", <<"U+1E93">>>>,
    <<"U+1E94", <<"U+1E95">>>>, <<"U+1E9E", <<"U+00DF">>>>,
    <<"U+1EA0", <<"U+1EA1">>>>, <<"U+1EA2", <<"U+1EA3">>>>,
    <<"U+1EA4", <<"U+1EA5">>>>, <<"U+1EA6", <<"U+1EA7">>>>,
    <<"U+1EA8", <<"U+1EA9">>>>, <<"U+1EAA", <<"U+1EAB">>>>,
    <<"U+1EAC", <<"U+1EAD">>>>, <<"U+1EAE", <<"U+1EAF">>>>,
    <<"U+1EB0", <<"U+1EB1">>>>, <<"U+1EB2", <<"U+1EB3">>>>,
    <<"U+1EB4", <<"U+1EB5">>>>, <<"U+1EB6", <<"U+1EB7">>>>,
    <<"U+1EB8", <<"U+1EB9">>>>, <<"U+1EBA", <<"U+1EBB">>>>,
    <<"U+1EBC", <<"U+1EBD">>>>, <<"U+1EBE", <<"U+1EBF">>>>,
    <<"U+1EC0", <<"U+1EC1">>>>, <<"U+1EC2", <<"U+1EC3">>>>,
    <<"U+1EC4", <<"U+1EC5">>>>, <<"U+1EC6", <<"U+1EC7">>>>,
    <<"U+1EC8", <<"U+1EC9">>>>, <<"U+1ECA", <<"U+1ECB">>>>,
    <<"U+1ECC", <<"U+1ECD">>>>, <<"U+1ECE", <<"U+1ECF">>>>,
    <<"U+1ED0", <<"U+1ED1">>>>, <<"U+1ED2", <<"U+1ED3">>>>,
    <<"U+1ED4", <<"U+1ED5">>>>, <<"U+1ED6", <<"U+1ED7">>>>,
    <<"U+1ED8", <<"U+1ED9">>>>, <<"U+1EDA", <<"U+1EDB">>>>,
    <<"U+1EDC", <<"U+1EDD">>>>, <<"U+1EDE", <<"U+1EDF">>>>,
    <<"U+1EE0", <<"U+1EE1">>>>, <<"U+1EE2", <<"U+1EE3">>>>,
    <<"U+1EE4", <<"U+1EE5">>>>, <<"U+1EE6", <<"U+1EE7">>>>,
    <<"U+1EE8", <<"U+1EE9">>>>, <<"U+1EEA", <<"U+1EEB">>>>,
    <<"U+1EEC", <<"U+1EED">>>>, <<"U+1EEE", <<"U+1EEF">>>>,
    <<"U+1EF0", <<"U+1EF1">>>>, <<"U+1EF2", <<"U+1EF3">>>>,
    <<"U+1EF4", <<"U+1EF5">>>>, <<"U+1EF6", <<"U+1EF7">>>>,
    <<"U+1EF8", <<"U+1EF9">>>>, <<"U+1EFA", <<"U+1EFB">>>>,
    <<"U+1EFC", <<"U+1EFD">>>>, <<"U+1EFE", <<"U+1EFF">>>>,
    <<"U+1F08", <<"U+1F00">>>>, <<"U+1F09", <<"U+1F01">>>>,
    <<"U+1F0A", <<"U+1F02">>>>, <<"U+1F0B", <<"U+1F03">>>>,
    <<"U+1F0C", <<"U+1F04">>>>, <<"U+1F0D", <<"U+1F05">>>>,
    <<"U+1F0E", <<"U+1F06">>>>, <<"U+1F0F", <<"U+1F07">>>>,
    <<"U+1F18", <<"U+1F10">>>>, <<"U+1F19", <<"U+1F11">>>>,
    <<"U+1F1A", <<"U+1F12">>>>, <<"U+1F1B", <<"U+1F13">>>>,
    <<"U+1F1C", <<"U+1F14">>>>, <<"U+1F1D", <<"U+1F15">>>>,
    <<"U+1F28", <<"U+1F20">>>>, <<"U+1F29", <<"U+1F21">>>>,
    <<"U+1F2A", <<"U+1F22">>>>, <<"U+1F2B", <<"U+1F23">>>>,
    <<"U+1F2C", <<"U+1F24">>>>, <<"U+1F2D", <<"U+1F25">>>>,
    <<"U+1F2E", <<"U+1F26">>>>, <<"U+1F2F", <<"U+1F27">>>>,
    <<"U+1F38", <<"U+1F30">>>>, <<"U+1F39", <<"U+1F31">>>>,
    <<"U+1F3A", <<"U+1F32">>>>, <<"U+1F3B", <<"U+1F33">>>>,
    <<"U+1F3C", <<"U+1F34">>>>, <<"U+1F3D", <<"U+1F35">>>>,
    <<"U+1F3E", <<"U+1F36">>>>, <<"U+1F3F", <<"U+1F37">>>>,
    <<"U+1F48", <<"U+1F40">>>>, <<"U+1F49", <<"U+1F41">>>>,
    <<"U+1F4A", <<"U+1F42">>>>, <<"U+1F4B", <<"U+1F43">>>>,
    <<"U+1F4C", <<"U+1F44">>>>, <<"U+1F4D", <<"U+1F45">>>>,
    <<"U+1F59", <<"U+1F51">>>>, <<"U+1F5B", <<"U+1F53">>>>,
    <<"U+1F5D", <<"U+1F55">>>>, <<"U+1F5F", <<"U+1F57">>>>,
    <<"U+1F68", <<"U+1F60">>>>, <<"U+1F69", <<"U+1F61">>>>,
    <<"U+1F6A", <<"U+1F62">>>>, <<"U+1F6B", <<"U+1F63">>>>,
    <<"U+1F6C", <<"U+1F64">>>>, <<"U+1F6D", <<"U+1F65">>>>,
    <<"U+1F6E", <<"U+1F66">>>>, <<"U+1F6F", <<"U+1F67">>>>,
    <<"U+1F88", <<"U+1F80">>>>, <<"U+1F89", <<"U+1F81">>>>,
    <<"U+1F8A", <<"U+1F82">>>>, <<"U+1F8B", <<"U+1F83">>>>,
    <<"U+1F8C", <<"U+1F84">>>>, <<"U+1F8D", <<"U+1F85">>>>,
    <<"U+1F8E", <<"U+1F86">>>>, <<"U+1F8F", <<"U+1F87">>>>,
    <<"U+1F98", <<"U+1F90">>>>, <<"U+1F99", <<"U+1F91">>>>,
    <<"U+1F9A", <<"U+1F92">>>>, <<"U+1F9B", <<"U+1F93">>>>,
    <<"U+1F9C", <<"U+1F94">>>>, <<"U+1F9D", <<"U+1F95">>>>,
    <<"U+1F9E", <<"U+1F96">>>>, <<"U+1F9F", <<"U+1F97">>>>,
    <<"U+1FA8", <<"U+1FA0">>>>, <<"U+1FA9", <<"U+1FA1">>>>,
    <<"U+1FAA", <<"U+1FA2">>>>, <<"U+1FAB", <<"U+1FA3">>>>,
    <<"U+1FAC", <<"U+1FA4">>>>, <<"U+1FAD", <<"U+1FA5">>>>,
    <<"U+1FAE", <<"U+1FA6">>>>, <<"U+1FAF", <<"U+1FA7">>>>,
    <<"U+1FB8", <<"U+1FB0">>>>, <<"U+1FB9", <<"U+1FB1">>>>,
    <<"U+1FBA", <<"U+1F70">>>>, <<"U+1FBB", <<"U+1F71">>>>,
    <<"U+1FBC", <<"U+1FB3">>>>, <<"U+1FC8", <<"U+1F72">>>>,
    <<"U+1FC9", <<"U+1F73">>>>, <<"U+1FCA", <<"U+1F74">>>>,
    <<"U+1FCB", <<"U+1F75">>>>, <<"U+1FCC", <<"U+1FC3">>>>,
    <<"U+1FD8", <<"U+1FD0">>>>, <<"U+1FD9", <<"U+1FD1">>>>,
    <<"U+1FDA", <<"U+1F76">>>>, <<"U+1FDB", <<"U+1F77">>>>,
    <<"U+1FE8", <<"U+1FE0">>>>, <<"U+1FE9", <<"U+1FE1">>>>,
    <<"U+1FEA", <<"U+1F7A">>>>, <<"U+1FEB", <<"U+1F7B">>>>,
    <<"U+1FEC", <<"U+1FE5">>>>, <<"U+1FF8", <<"U+1F78">>>>,
    <<"U+1FF9", <<"U+1F79">>>>, <<"U+1FFA", <<"U+1F7C">>>>,
    <<"U+1FFB", <<"U+1F7D">>>>, <<"U+1FFC", <<"U+1FF3">>>>,
    <<"U+2126", <<"U+03C9">>>>, <<"U+212A", <<"k">>>>,
    <<"U+212B", <<"U+00E5">>>>, <<"U+2132", <<"U+214E">>>>,
    <<"U+2160", <<"U+2170">>>>, <<"U+2161", <<"U+2171">>>>,
    <<"U+2162", <<"U+2172">>>>, <<"U+2163", <<"U+2173">>>>,
    <<"U+2164", <<"U+2174">>>>, <<"U+2165", <<"U+2175">>>>,
    <<"U+2166", <<"U+2176">>>>, <<"U+2167", <<"U+2177">>>>,
    <<"U+2168", <<"U+2178">>>>, <<"U+2169", <<"U+2179">>>>,
    <<"U+216A", <<"U+217A">>>>, <<"U+216B", <<"U+217B">>>>,
    <<"U+216C", <<"U+217C">>>>, <<"U+216D", <<"U+217D">>>>,
    <<"U+216E", <<"U+217E">>>>, <<"U+216F", <<"U+217F">>>>,
    <<"U+2183", <<"U+2184">>>>, <<"U+24B6", <<"U+24D0">>>>,
    <<"U+24B7", <<"U+24D1">>>>, <<"U+24B8", <<"U+24D2">>>>,
    <<"U+24B9", <<"U+24D3">>>>, <<"U+24BA", <<"U+24D4">>>>,
    <<"U+24BB", <<"U+24D5">>>>, <<"U+24BC", <<"U+24D6">>>>,
    <<"U+24BD", <<"U+24D7">>>>, <<"U+24BE", <<"U+24D8">>>>,
    <<"U+24BF", <<"U+24D9">>>>, <<"U+24C0", <<"U+24DA">>>>,
    <<"U+24C1", <<"U+24DB">>>>, <<"U+24C2", <<"U+24DC">>>>,
    <<"U+24C3", <<"U+24DD">>>>, <<"U+24C4", <<"U+24DE">>>>,
    <<"U+24C5", <<"U+24DF">>>>, <<"U+24C6", <<"U+24E0">>>>,
    <<"U+24C7", <<"U+24E1">>>>, <<"U+24C8", <<"U+24E2">>>>,
    <<"U+24C9", <<"U+24E3">>>>, <<"U+24CA", <<"U+24E4">>>>,
    <<"U+24CB", <<"U+24E5">>>>, <<"U+24CC", <<"U+24E6">>>>,
    <<"U+24CD", <<"U+24E7">>>>, <<"U+24CE", <<"U+24E8">>>>,
    <<"U+24CF", <<"U+24E9">>>>, <<"U+2C00", <<"U+2C30">>>>,
    <<"U+2C01", <<"U+2C31">>>>, <<"U+2C02", <<"U+2C32">>>>,
    <<"U+2C03", <<"U+2C33">>>>, <<"U+2C04", <<"U+2C34">>>>,
    <<"U+2C05", <<"U+2C35">>>>, <<"U+2C06", <<"U+2C36">>>>,
    <<"U+2C07", <<"U+2C37">>>>, <<"U+2C08", <<"U+2C38">>>>,
    <<"U+2C09", <<"U+2C39">>>>, <<"U+2C0A", <<"U+2C3A">>>>,
    <<"U+2C0B", <<"U+2C3B">>>>, <<"U+2C0C", <<"U+2C3C">>>>,
    <<"U+2C0D", <<"U+2C3D">>>>, <<"U+2C0E", <<"U+2C3E">>>>,
    <<"U+2C0F", <<"U+2C3F">>>>, <<"U+2C10", <<"U+2C40">>>>,
    <<"U+2C11", <<"U+2C41">>>>, <<"U+2C12", <<"U+2C42">>>>,
    <<"U+2C13", <<"U+2C43">>>>, <<"U+2C14", <<"U+2C44">>>>,
    <<"U+2C15", <<"U+2C45">>>>, <<"U+2C16", <<"U+2C46">>>>,
    <<"U+2C17", <<"U+2C47">>>>, <<"U+2C18", <<"U+2C48">>>>,
    <<"U+2C19", <<"U+2C49">>>>, <<"U+2C1A", <<"U+2C4A">>>>,
    <<"U+2C1B", <<"U+2C4B">>>>, <<"U+2C1C", <<"U+2C4C">>>>,
    <<"U+2C1D", <<"U+2C4D">>>>, <<"U+2C1E", <<"U+2C4E">>>>,
    <<"U+2C1F", <<"U+2C4F">>>>, <<"U+2C20", <<"U+2C50">>>>,
    <<"U+2C21", <<"U+2C51">>>>, <<"U+2C22", <<"U+2C52">>>>,
    <<"U+2C23", <<"U+2C53">>>>, <<"U+2C24", <<"U+2C54">>>>,
    <<"U+2C25", <<"U+2C55">>>>, <<"U+2C26", <<"U+2C56">>>>,
    <<"U+2C27", <<"U+2C57">>>>, <<"U+2C28", <<"U+2C58">>>>,
    <<"U+2C29", <<"U+2C59">>>>, <<"U+2C2A", <<"U+2C5A">>>>,
    <<"U+2C2B", <<"U+2C5B">>>>, <<"U+2C2C", <<"U+2C5C">>>>,
    <<"U+2C2D", <<"U+2C5D">>>>, <<"U+2C2E", <<"U+2C5E">>>>,
    <<"U+2C2F", <<"U+2C5F">>>>, <<"U+2C60", <<"U+2C61">>>>,
    <<"U+2C62", <<"U+026B">>>>, <<"U+2C63", <<"U+1D7D">>>>,
    <<"U+2C64", <<"U+027D">>>>, <<"U+2C67", <<"U+2C68">>>>,
    <<"U+2C69", <<"U+2C6A">>>>, <<"U+2C6B", <<"U+2C6C">>>>,
    <<"U+2C6D", <<"U+0251">>>>, <<"U+2C6E", <<"U+0271">>>>,
    <<"U+2C6F", <<"U+0250">>>>, <<"U+2C70", <<"U+0252">>>>,
    <<"U+2C72", <<"U+2C73">>>>, <<"U+2C75", <<"U+2C76">>>>,
    <<"U+2C7E", <<"U+023F">>>>, <<"U+2C7F", <<"U+0240">>>>,
    <<"U+2C80", <<"U+2C81">>>>, <<"U+2C82", <<"U+2C83">>>>,
    <<"U+2C84", <<"U+2C85">>>>, <<"U+2C86", <<"U+2C87">>>>,
    <<"U+2C88", <<"U+2C89">>>>, <<"U+2C8A", <<"U+2C8B">>>>,
    <<"U+2C8C", <<"U+2C8D">>>>, <<"U+2C8E", <<"U+2C8F">>>>,
    <<"U+2C90", <<"U+2C91">>>>, <<"U+2C92", <<"U+2C93">>>>,
    <<"U+2C94", <<"U+2C95">>>>, <<"U+2C96", <<"U+2C97">>>>,
    <<"U+2C98", <<"U+2C99">>>>, <<"U+2C9A", <<"U+2C9B">>>>,
    <<"U+2C9C", <<"U+2C9D">>>>, <<"U+2C9E", <<"U+2C9F">>>>,
    <<"U+2CA0", <<"U+2CA1">>>>, <<"U+2CA2", <<"U+2CA3">>>>,
    <<"U+2CA4", <<"U+2CA5">>>>, <<"U+2CA6", <<"U+2CA7">>>>,
    <<"U+2CA8", <<"U+2CA9">>>>, <<"U+2CAA", <<"U+2CAB">>>>,
    <<"U+2CAC", <<"U+2CAD">>>>, <<"U+2CAE", <<"U+2CAF">>>>,
    <<"U+2CB0", <<"U+2CB1">>>>, <<"U+2CB2", <<"U+2CB3">>>>,
    <<"U+2CB4", <<"U+2CB5">>>>, <<"U+2CB6", <<"U+2CB7">>>>,
    <<"U+2CB8", <<"U+2CB9">>>>, <<"U+2CBA", <<"U+2CBB">>>>,
    <<"U+2CBC", <<"U+2CBD">>>>, <<"U+2CBE", <<"U+2CBF">>>>,
    <<"U+2CC0", <<"U+2CC1">>>>, <<"U+2CC2", <<"U+2CC3">>>>,
    <<"U+2CC4", <<"U+2CC5">>>>, <<"U+2CC6", <<"U+2CC7">>>>,
    <<"U+2CC8", <<"U+2CC9">>>>, <<"U+2CCA", <<"U+2CCB">>>>,
    <<"U+2CCC", <<"U+2CCD">>>>, <<"U+2CCE", <<"U+2CCF">>>>,
    <<"U+2CD0", <<"U+2CD1">>>>, <<"U+2CD2", <<"U+2CD3">>>>,
    <<"U+2CD4", <<"U+2CD5">>>>, <<"U+2CD6", <<"U+2CD7">>>>,
    <<"U+2CD8", <<"U+2CD9">>>>, <<"U+2CDA", <<"U+2CDB">>>>,
    <<"U+2CDC", <<"U+2CDD">>>>, <<"U+2CDE", <<"U+2CDF">>>>,
    <<"U+2CE0", <<"U+2CE1">>>>, <<"U+2CE2", <<"U+2CE3">>>>,
    <<"U+2CEB", <<"U+2CEC">>>>, <<"U+2CED", <<"U+2CEE">>>>,
    <<"U+2CF2", <<"U+2CF3">>>>, <<"U+A640", <<"U+A641">>>>,
    <<"U+A642", <<"U+A643">>>>, <<"U+A644", <<"U+A645">>>>,
    <<"U+A646", <<"U+A647">>>>, <<"U+A648", <<"U+A649">>>>,
    <<"U+A64A", <<"U+A64B">>>>, <<"U+A64C", <<"U+A64D">>>>,
    <<"U+A64E", <<"U+A64F">>>>, <<"U+A650", <<"U+A651">>>>,
    <<"U+A652", <<"U+A653">>>>, <<"U+A654", <<"U+A655">>>>,
    <<"U+A656", <<"U+A657">>>>, <<"U+A658", <<"U+A659">>>>,
    <<"U+A65A", <<"U+A65B">>>>, <<"U+A65C", <<"U+A65D">>>>,
    <<"U+A65E", <<"U+A65F">>>>, <<"U+A660", <<"U+A661">>>>,
    <<"U+A662", <<"U+A663">>>>, <<"U+A664", <<"U+A665">>>>,
    <<"U+A666", <<"U+A667">>>>, <<"U+A668", <<"U+A669">>>>,
    <<"U+A66A", <<"U+A66B">>>>, <<"U+A66C", <<"U+A66D">>>>,
    <<"U+A680", <<"U+A681">>>>, <<"U+A682", <<"U+A683">>>>,
    <<"U+A684", <<"U+A685">>>>, <<"U+A686", <<"U+A687">>>>,
    <<"U+A688", <<"U+A689">>>>, <<"U+A68A", <<"U+A68B">>>>,
    <<"U+A68C", <<"U+A68D">>>>, <<"U+A68E", <<"U+A68F">>>>,
    <<"U+A690", <<"U+A691">>>>, <<"U+A692", <<"U+A693">>>>,
    <<"U+A694", <<"U+A695">>>>, <<"U+A696", <<"U+A697">>>>,
    <<"U+A698", <<"U+A699">>>>, <<"U+A69A", <<"U+A69B">>>>,
    <<"U+A722", <<"U+A723">>>>, <<"U+A724", <<"U+A725">>>>,
    <<"U+A726", <<"U+A727">>>>, <<"U+A728", <<"U+A729">>>>,
    <<"U+A72A", <<"U+A72B">>>>, <<"U+A72C", <<"U+A72D">>>>,
    <<"U+A72E", <<"U+A72F">>>>, <<"U+A732", <<"U+A733">>>>,
    <<"U+A734", <<"U+A735">>>>, <<"U+A736", <<"U+A737">>>>,
    <<"U+A738", <<"U+A739">>>>, <<"U+A73A", <<"U+A73B">>>>,
    <<"U+A73C", <<"U+A73D">>>>, <<"U+A73E", <<"U+A73F">>>>,
    <<"U+A740", <<"U+A741">>>>, <<"U+A742", <<"U+A743">>>>,
    <<"U+A744", <<"U+A745">>>>, <<"U+A746", <<"U+A747">>>>,
    <<"U+A748", <<"U+A749">>>>, <<"U+A74A", <<"U+A74B">>>>,
    <<"U+A74C", <<"U+A74D">>>>, <<"U+A74E", <<"U+A74F">>>>,
    <<"U+A750", <<"U+A751">>>>, <<"U+A752", <<"U+A753">>>>,
    <<"U+A754", <<"U+A755">>>>, <<"U+A756", <<"U+A757">>>>,
    <<"U+A758", <<"U+A759">>>>, <<"U+A75A", <<"U+A75B">>>>,
    <<"U+A75C", <<"U+A75D">>>>, <<"U+A75E", <<"U+A75F">>>>,
    <<"U+A760", <<"U+A761">>>>, <<"U+A762", <<"U+A763">>>>,
    <<"U+A764", <<"U+A765">>>>, <<"U+A766", <<"U+A767">>>>,
    <<"U+A768", <<"U+A769">>>>, <<"U+A76A", <<"U+A76B">>>>,
    <<"U+A76C", <<"U+A76D">>>>, <<"U+A76E", <<"U+A76F">>>>,
    <<"U+A779", <<"U+A77A">>>>, <<"U+A77B", <<"U+A77C">>>>,
    <<"U+A77D", <<"U+1D79">>>>, <<"U+A77E", <<"U+A77F">>>>,
    <<"U+A780", <<"U+A781">>>>, <<"U+A782", <<"U+A783">>>>,
    <<"U+A784", <<"U+A785">>>>, <<"U+A786", <<"U+A787">>>>,
    <<"U+A78B", <<"U+A78C">>>>, <<"U+A78D", <<"U+0265">>>>,
    <<"U+A790", <<"U+A791">>>>, <<"U+A792", <<"U+A793">>>>,
    <<"U+A796", <<"U+A797">>>>, <<"U+A798", <<"U+A799">>>>,
    <<"U+A79A", <<"U+A79B">>>>, <<"U+A79C", <<"U+A79D">>>>,
    <<"U+A79E", <<"U+A79F">>>>, <<"U+A7A0", <<"U+A7A1">>>>,
    <<"U+A7A2", <<"U+A7A3">>>>, <<"U+A7A4", <<"U+A7A5">>>>,
    <<"U+A7A6", <<"U+A7A7">>>>, <<"U+A7A8", <<"U+A7A9">>>>,
    <<"U+A7AA", <<"U+0266">>>>, <<"U+A7AB", <<"U+025C">>>>,
    <<"U+A7AC", <<"U+0261">>>>, <<"U+A7AD", <<"U+026C">>>>,
    <<"U+A7AE", <<"U+026A">>>>, <<"U+A7B0", <<"U+029E">>>>,
    <<"U+A7B1", <<"U+0287">>>>, <<"U+A7B2", <<"U+029D">>>>,
    <<"U+A7B3", <<"U+AB53">>>>, <<"U+A7B4", <<"U+A7B5">>>>,
    <<"U+A7B6", <<"U+A7B7">>>>, <<"U+A7B8", <<"U+A7B9">>>>,
    <<"U+A7BA", <<"U+A7BB">>>>, <<"U+A7BC", <<"U+A7BD">>>>,
    <<"U+A7BE", <<"U+A7BF">>>>, <<"U+A7C0", <<"U+A7C1">>>>,
    <<"U+A7C2", <<"U+A7C3">>>>, <<"U+A7C4", <<"U+A794">>>>,
    <<"U+A7C5", <<"U+0282">>>>, <<"U+A7C6", <<"U+1D8E">>>>,
    <<"U+A7C7", <<"U+A7C8">>>>, <<"U+A7C9", <<"U+A7CA">>>>,
    <<"U+A7D0", <<"U+A7D1">>>>, <<"U+A7D6", <<"U+A7D7">>>>,
    <<"U+A7D8", <<"U+A7D9">>>>, <<"U+A7F5", <<"U+A7F6">>>>,
    <<"U+FF21", <<"U+FF41">>>>, <<"U+FF22", <<"U+FF42">>>>,
    <<"U+FF23", <<"U+FF43">>>>, <<"U+FF24", <<"U+FF44">>>>,
    <<"U+FF25", <<"U+FF45">>>>, <<"U+FF26", <<"U+FF46">>>>,
    <<"U+FF27", <<"U+FF47">>>>, <<"U+FF28", <<"U+FF48">>>>,
    <<"U+FF29", <<"U+FF49">>>>, <<"U+FF2A", <<"U+FF4A">>>>,
    <<"U+FF2B", <<"U+FF4B">>>>, <<"U+FF2C", <<"U+FF4C">>>>,
    <<"U+FF2D", <<"U+FF4D">>>>, <<"U+FF2E", <<"U+FF4E">>>>,
    <<"U+FF2F", <<"U+FF4F">>>>, <<"U+FF30", <<"U+FF50">>>>,
    <<"U+FF31", <<"U+FF51">>>>, <<"U+FF32", <<"U+FF52">>>>,
    <<"U+FF33", <<"U+FF53">>>>, <<"U+FF34", <<"U+FF54">>>>,
    <<"U+FF35", <<"U+FF55">>>>, <<"U+FF36", <<"U+FF56">>>>,
    <<"U+FF37", <<"U+FF57">>>>, <<"U+FF38", <<"U+FF58">>>>,
    <<"U+FF39", <<"U+FF59">>>>, <<"U+FF3A", <<"U+FF5A">>>>,
    <<"U+10400", <<"U+10428">>>>, <<"U+10401", <<"U+10429">>>>,
    <<"U+10402", <<"U+1042A">>>>, <<"U+10403", <<"U+1042B">>>>,
    <<"U+10404", <<"U+1042C">>>>, <<"U+10405", <<"U+1042D">>>>,
    <<"U+10406", <<"U+1042E">>>>, <<"U+10407", <<"U+1042F">>>>,
    <<"U+10408", <<"U+10430">>>>, <<"U+10409", <<"U+10431">>>>,
    <<"U+1040A", <<"U+10432">>>>, <<"U+1040B", <<"U+10433">>>>,
    <<"U+1040C", <<"U+10434">>>>, <<"U+1040D", <<"U+10435">>>>,
    <<"U+1040E", <<"U+10436">>>>, <<"U+1040F", <<"U+10437">>>>,
    <<"U+10410", <<"U+10438">>>>, <<"U+10411", <<"U+10439">>>>,
    <<"U+10412", <<"U+1043A">>>>, <<"U+10413", <<"U+1043B">>>>,
    <<"U+10414", <<"U+1043C">>>>, <<"U+10415", <<"U+1043D">>>>,
    <<"U+10416", <<"U+1043E">>>>, <<"U+10417", <<"U+1043F">>>>,
    <<"U+10418", <<"U+10440">>>>, <<"U+10419", <<"U+10441">>>>,
    <<"U+1041A", <<"U+10442">>>>, <<"U+1041B", <<"U+10443">>>>,
    <<"U+1041C", <<"U+10444">>>>, <<"U+1041D", <<"U+10445">>>>,
    <<"U+1041E", <<"U+10446">>>>, <<"U+1041F", <<"U+10447">>>>,
    <<"U+10420", <<"U+10448">>>>, <<"U+10421", <<"U+10449">>>>,
    <<"U+10422", <<"U+1044A">>>>, <<"U+10423", <<"U+1044B">>>>,
    <<"U+10424", <<"U+1044C">>>>, <<"U+10425", <<"U+1044D">>>>,
    <<"U+10426", <<"U+1044E">>>>, <<"U+10427", <<"U+1044F">>>>,
    <<"U+104B0", <<"U+104D8">>>>, <<"U+104B1", <<"U+104D9">>>>,
    <<"U+104B2", <<"U+104DA">>>>, <<"U+104B3", <<"U+104DB">>>>,
    <<"U+104B4", <<"U+104DC">>>>, <<"U+104B5", <<"U+104DD">>>>,
    <<"U+104B6", <<"U+104DE">>>>, <<"U+104B7", <<"U+104DF">>>>,
    <<"U+104B8", <<"U+104E0">>>>, <<"U+104B9", <<"U+104E1">>>>,
    <<"U+104BA", <<"U+104E2">>>>, <<"U+104BB", <<"U+104E3">>>>,
    <<"U+104BC", <<"U+104E4">>>>, <<"U+104BD", <<"U+104E5">>>>,
    <<"U+104BE", <<"U+104E6">>>>, <<"U+104BF", <<"U+104E7">>>>,
    <<"U+104C0", <<"U+104E8">>>>, <<"U+104C1", <<"U+104E9">>>>,
    <<"U+104C2", <<"U+104EA">>>>, <<"U+104C3", <<"U+104EB">>>>,
    <<"U+104C4", <<"U+104EC">>>>, <<"U+104C5", <<"U+104ED">>>>,
    <<"U+104C6", <<"U+104EE">>>>, <<"U+104C7", <<"U+104EF">>>>,
    <<"U+104C8", <<"U+104F0">>>>, <<"U+104C9", <<"U+104F1">>>>,
    <<"U+104CA", <<"U+104F2">>>>, <<"U+104CB", <<"U+104F3">>>>,
    <<"U+104CC", <<"U+104F4">>>>, <<"U+104CD", <<"U+104F5">>>>,
    <<"U+104CE", <<"U+104F6">>>>, <<"U+104CF", <<"U+104F7">>>>,
    <<"U+104D0", <<"U+104F8">>>>, <<"U+104D1", <<"U+104F9">>>>,
    <<"U+104D2", <<"U+104FA">>>>, <<"U+104D3", <<"U+104FB">>>>,
    <<"U+10570", <<"U+10597">>>>, <<"U+10571", <<"U+10598">>>>,
    <<"U+10572", <<"U+10599">>>>, <<"U+10573", <<"U+1059A">>>>,
    <<"U+10574", <<"U+1059B">>>>, <<"U+10575", <<"U+1059C">>>>,
    <<"U+10576", <<"U+1059D">>>>, <<"U+10577", <<"U+1059E">>>>,
    <<"U+10578", <<"U+1059F">>>>, <<"U+10579", <<"U+105A0">>>>,
    <<"U+1057A", <<"U+105A1">>>>, <<"U+1057C", <<"U+105A3">>>>,
    <<"U+1057D", <<"U+105A4">>>>, <<"U+1057E", <<"U+105A5">>>>,
    <<"U+1057F", <<"U+105A6">>>>, <<"U+10580", <<"U+105A7">>>>,
    <<"U+10581", <<"U+105A8">>>>, <<"U+10582", <<"U+105A9">>>>,
    <<"U+10583", <<"U+105AA">>>>, <<"U+10584", <<"U+105AB">>>>,
    <<"U+10585", <<"U+105AC">>>>, <<"U+10586", <<"U+105AD">>>>,
    <<"U+10587", <<"U+105AE">>>>, <<"U+10588", <<"U+105AF">>>>,
    <<"U+10589", <<"U+105B0">>>>, <<"U+1058A", <<"U+105B1">>>>,
    <<"U+1058C", <<"U+105B3">>>>, <<"U+1058D", <<"U+105B4">>>>,
    <<"U+1058E", <<"U+105B5">>>>, <<"U+1058F", <<"U+105B6">>>>,
    <<"U+10590", <<"U+105B7">>>>, <<"U+10591", <<"U+105B8">>>>,
    <<"U+10592", <<"U+105B9">>>>, <<"U+10594", <<"U+105BB">>>>,
    <<"U+10595", <<"U+105BC">>>>, <<"U+10C80", <<"U+10CC0">>>>,
    <<"U+10C81", <<"U+10CC1">>>>, <<"U+10C82", <<"U+10CC2">>>>,
    <<"U+10C83", <<"U+10CC3">>>>, <<"U+10C84", <<"U+10CC4">>>>,
    <<"U+10C85", <<"U+10CC5">>>>, <<"U+10C86", <<"U+10CC6">>>>,
    <<"U+10C87", <<"U+10CC7">>>>, <<"U+10C88", <<"U+10CC8">>>>,
    <<"U+10C89", <<"U+10CC9">>>>, <<"U+10C8A", <<"U+10CCA">>>>,
    <<"U+10C8B", <<"U+10CCB">>>>, <<"U+10C8C", <<"U+10CCC">>>>,
    <<"U+10C8D", <<"U+10CCD">>>>, <<"U+10C8E", <<"U+10CCE">>>>,
    <<"U+10C8F", <<"U+10CCF">>>>, <<"U+10C90", <<"U+10CD0">>>>,
    <<"U+10C91", <<"U+10CD1">>>>, <<"U+10C92", <<"U+10CD2">>>>,
    <<"U+10C93", <<"U+10CD3">>>>, <<"U+10C94", <<"U+10CD4">>>>,
    <<"U+10C95", <<"U+10CD5">>>>, <<"U+10C96", <<"U+10CD6">>>>,
    <<"U+10C97", <<"U+10CD7">>>>, <<"U+10C98", <<"U+10CD8">>>>,
    <<"U+10C99", <<"U+10CD9">>>>, <<"U+10C9A", <<"U+10CDA">>>>,
    <<"U+10C9B", <<"U+10CDB">>>>, <<"U+10C9C", <<"U+10CDC">>>>,
    <<"U+10C9D", <<"U+10CDD">>>>, <<"U+10C9E", <<"U+10CDE">>>>,
    <<"U+10C9F", <<"U+10CDF">>>>, <<"U+10CA0", <<"U+10CE0">>>>,
    <<"U+10CA1", <<"U+10CE1">>>>, <<"U+10CA2", <<"U+10CE2">>>>,
    <<"U+10CA3", <<"U+10CE3">>>>, <<"U+10CA4", <<"U+10CE4">>>>,
    <<"U+10CA5", <<"U+10CE5">>>>, <<"U+10CA6", <<"U+10CE6">>>>,
    <<"U+10CA7", <<"U+10CE7">>>>, <<"U+10CA8", <<"U+10CE8">>>>,
    <<"U+10CA9", <<"U+10CE9">>>>, <<"U+10CAA", <<"U+10CEA">>>>,
    <<"U+10CAB", <<"U+10CEB">>>>, <<"U+10CAC", <<"U+10CEC">>>>,
    <<"U+10CAD", <<"U+10CED">>>>, <<"U+10CAE", <<"U+10CEE">>>>,
    <<"U+10CAF", <<"U+10CEF">>>>, <<"U+10CB0", <<"U+10CF0">>>>,
    <<"U+10CB1", <<"U+10CF1">>>>, <<"U+10CB2", <<"U+10CF2">>>>,
    <<"U+118A0", <<"U+118C0">>>>, <<"U+118A1", <<"U+118C1">>>>,
    <<"U+118A2", <<"U+118C2">>>>, <<"U+118A3", <<"U+118C3">>>>,
    <<"U+118A4", <<"U+118C4">>>>, <<"U+118A5", <<"U+118C5">>>>,
    <<"U+118A6", <<"U+118C6">>>>, <<"U+118A7", <<"U+118C7">>>>,
    <<"U+118A8", <<"U+118C8">>>>, <<"U+118A9", <<"U+118C9">>>>,
    <<"U+118AA", <<"U+118CA">>>>, <<"U+118AB", <<"U+118CB">>>>,
    <<"U+118AC", <<"U+118CC">>>>, <<"U+118AD", <<"U+118CD">>>>,
    <<"U+118AE", <<"U+118CE">>>>, <<"U+118AF", <<"U+118CF">>>>,
    <<"U+118B0", <<"U+118D0">>>>, <<"U+118B1", <<"U+118D1">>>>,
    <<"U+118B2", <<"U+118D2">>>>, <<"U+118B3", <<"U+118D3">>>>,
    <<"U+118B4", <<"U+118D4">>>>, <<"U+118B5", <<"U+118D5">>>>,
    <<"U+118B6", <<"U+118D6">>>>, <<"U+118B7", <<"U+118D7">>>>,
    <<"U+118B8", <<"U+118D8">>>>, <<"U+118B9", <<"U+118D9">>>>,
    <<"U+118BA", <<"U+118DA">>>>, <<"U+118BB", <<"U+118DB">>>>,
    <<"U+118BC", <<"U+118DC">>>>, <<"U+118BD", <<"U+118DD">>>>,
    <<"U+118BE", <<"U+118DE">>>>, <<"U+118BF", <<"U+118DF">>>>,
    <<"U+16E40", <<"U+16E60">>>>, <<"U+16E41", <<"U+16E61">>>>,
    <<"U+16E42", <<"U+16E62">>>>, <<"U+16E43", <<"U+16E63">>>>,
    <<"U+16E44", <<"U+16E64">>>>, <<"U+16E45", <<"U+16E65">>>>,
    <<"U+16E46", <<"U+16E66">>>>, <<"U+16E47", <<"U+16E67">>>>,
    <<"U+16E48", <<"U+16E68">>>>, <<"U+16E49", <<"U+16E69">>>>,
    <<"U+16E4A", <<"U+16E6A">>>>, <<"U+16E4B", <<"U+16E6B">>>>,
    <<"U+16E4C", <<"U+16E6C">>>>, <<"U+16E4D", <<"U+16E6D">>>>,
    <<"U+16E4E", <<"U+16E6E">>>>, <<"U+16E4F", <<"U+16E6F">>>>,
    <<"U+16E50", <<"U+16E70">>>>, <<"U+16E51", <<"U+16E71">>>>,
    <<"U+16E52", <<"U+16E72">>>>, <<"U+16E53", <<"U+16E73">>>>,
    <<"U+16E54", <<"U+16E74">>>>, <<"U+16E55", <<"U+16E75">>>>,
    <<"U+16E56", <<"U+16E76">>>>, <<"U+16E57", <<"U+16E77">>>>,
    <<"U+16E58", <<"U+16E78">>>>, <<"U+16E59", <<"U+16E79">>>>,
    <<"U+16E5A", <<"U+16E7A">>>>, <<"U+16E5B", <<"U+16E7B">>>>,
    <<"U+16E5C", <<"U+16E7C">>>>, <<"U+16E5D", <<"U+16E7D">>>>,
    <<"U+16E5E", <<"U+16E7E">>>>, <<"U+16E5F", <<"U+16E7F">>>>,
    <<"U+1E900", <<"U+1E922">>>>, <<"U+1E901", <<"U+1E923">>>>,
    <<"U+1E902", <<"U+1E924">>>>, <<"U+1E903", <<"U+1E925">>>>,
    <<"U+1E904", <<"U+1E926">>>>, <<"U+1E905", <<"U+1E927">>>>,
    <<"U+1E906", <<"U+1E928">>>>, <<"U+1E907", <<"U+1E929">>>>,
    <<"U+1E908", <<"U+1E92A">>>>, <<"U+1E909", <<"U+1E92B">>>>,
    <<"U+1E90A", <<"U+1E92C">>>>, <<"U+1E90B", <<"U+1E92D">>>>,
    <<"U+1E90C", <<"U+1E92E">>>>, <<"U+1E90D", <<"U+1E92F">>>>,
    <<"U+1E90E", <<"U+1E930">>>>, <<"U+1E90F", <<"U+1E931">>>>,
    <<"U+1E910", <<"U+1E932">>>>, <<"U+1E911", <<"U+1E933">>>>,
    <<"U+1E912", <<"U+1E934">>>>, <<"U+1E913", <<"U+1E935">>>>,
    <<"U+1E914", <<"U+1E936">>>>, <<"U+1E915", <<"U+1E937">>>>,
    <<"U+1E916", <<"U+1E938">>>>, <<"U+1E917", <<"U+1E939">>>>,
    <<"U+1E918", <<"U+1E93A">>>>, <<"U+1E919", <<"U+1E93B">>>>,
    <<"U+1E91A", <<"U+1E93C">>>>, <<"U+1E91B", <<"U+1E93D">>>>,
    <<"U+1E91C", <<"U+1E93E">>>>, <<"U+1E91D", <<"U+1E93F">>>>,
    <<"U+1E91E", <<"U+1E940">>>>, <<"U+1E91F", <<"U+1E941">>>>,
    <<"U+1E920", <<"U+1E942">>>>, <<"U+1E921", <<"U+1E943">>>>
   >>

\* the characters with the property Cased
CASED ==
   {
    "A", "B", "C", "D", "E", "F", "G", "H", "I", "J", "K", "L", "M", "N", "O",
    "P", "Q", "R", "S", "T", "U", "V", "W", "X", "Y", "Z", "a", "b", "c", "d",
    "e", "f", "g", "h", "i", "j", "k", "l", "m", "n", "o", "p", "q", "r", "s",
    "t", "u", "v", "w", "x", "y", "z", "U+00AA", "U+00B5", "U+00BA", "U+00C0",
    "U+00C1", "U+00C2", "U+00C3", "U+00C4", "U+00C5", "U+00C6", "U+00C7",
    "U+00C8", "U+00C9", "U+00CA", "U+00CB", "U+00CC", "U+00CD", "U+00CE",
    "U+00CF", "U+00D0", "U+00D1", "U+00D2", "U+00D3", "U+00D4", "U+00D5",
    "U+00D6", "U+00D8", "U+00D9", "U+00DA", "U+00DB", "U+00DC", "U+00DD",
    "U+00DE", "U+00DF", "U+00E0", "U+00E1", "U+00E2", "U+00E3", "U+00E4",
    "U+00E5", "U+00E6", "U+00E7", "U+00E8", "U+00E9", "U+00EA", "U+00EB",
    "U+00EC", "U+00ED", "U+00EE", "U+00EF", "U+00F0", "U+00F1", "U+00F2",
    "U+00F3", "U+00F4", "U+00F5", "U+00F6", "U+00F8", "U+00F9", "U+00FA",
    "U+00FB", "U+00FC", "U+00FD", "U+00FE", "U+00FF", "U+0100", "U+0101",
    "U+0102", "U+0103", "U+0104", "U+0105", "U+0106", "U+0107", "U+0108",
    "U+0109", "U+010A", "U+010B", "U+010C", "U+010D", "U+010E", "U+010F",
    "U+0110", "U+0111", "U+0112", "U+0113", "U+0114", "U+0115", "U+0116",
    "U+0117", "U+0118", "U+0119", "U+011A", "U+011B", "U+011C", "U+011D",
    "U+011E", "U+011F", "U+0120", "U+0121", "U+0122", "U+0123", "U+0124",
    "U+0125", "U+0126", "U+0127", "U+0128", "U+0129", "U+012A", "U+012B",
    "U+012C", "U+012D", "U+012E", "U+012F", "U+0130", "U+0131", "U+0132",
    "U+0133", "U+0134", "U+0135", "U+0136", "U+0137", "U+0138", "U+0139",
    "U+013A", "U+013B", "U+013C", "U+013D", "U+013E", "U+013F", "U+0140",
    "U+0141", "U+0142", "U+0143", "U+0144", "U+0145", "U+0146", "U+0147",
    "U+0148", "U+0149", "U+014A", "U+014B", "U+014C", "U+014D", "U+014E",
    "U+014F", "U+0150", "U+0151", "U+0152", "U+0153", "U+0154", "U+0155",
    "U+0156", "U+0157", "U+0158", "U+0159", "U+015A", "U+015B", "U+015C",
    "U+015D", "U+015E", "U+015F", "U+0160", "U+0161", "U+0162", "U+0163",
    "U+0164", "U+0165", "U+0166", "U+0167", "U+0168", "U+0169", "U+016A",
    "U+016B", "U+016C", "U+016D", "U+016E", "U+016F", "U+0170", "U+0171",
    "U+0172", "U+0173", "U+0174", "U+0175", "U+0176", "U+0177", "U+0178",
    "U+0179", "U+017A", "U+017B", "U+017C", "U+017D", "U+017E", "U+017F",
    "U+0180", "U+0181", "U+0182", "U+0183", "U+0184", "U+0185", "U+0186",
    "U+0187", "U+0188", "U+0189", "U+018A", "U+018B", "U+018C", "U+018D",
    "U+018E", "U+018F", "U+0190", "U+0191", "U+0192", "U+0193", "U+0194",
    "U+0195", "U+0196", "U+0197", "U+0198", "U+0199", "U+019A", "U+019B",
    "U+019C", "U+019D", "U+019E", "U+019F", "U+01A0", "U+01A1", "U+01A2",
    "U+01A3", "U+01A4", "U+01A5", "U+01A6", "U+01A7", "U+01A8", "U+01A9",
    "U+01AA", "U+01AB", "U+01AC", "U+01AD", "U+01AE", "U+01AF", "U+01B0",
    "U+01B1", "U+01B2", "U+01B3", "U+01B4", "U+01B5", "U+01B6", "U+01B7",
    "U+01B8", "U+01B9", "U+01BA", "U+01BC", "U+01BD", "U+01BE", "U+01BF",
    "U+01C4", "U+01C5", "U+01C6", "U+01C7", "U+01C8", "U+01C9", "U+01CA",
    "U+01CB", "U+01CC", "U+01CD", "U+01CE", "U+01CF", "U+01D0", "U+01D1",
    "U+01D2", "U+01D3", "U+01D4", "U+01D5", "U+01D6", "U+01D7", "U+01D8",
    "U+01D9", "U+01DA", "U+01DB", "U+01DC", "U+01DD", "U+01DE", "U+01DF",
    "U+01E0", "U+01E1", "U+01E2", "U+01E3", "U+01E4", "U+01E5", "U+01E6",
    "U+01E7", "U+01E8", "U+01E9", "U+01EA", "U+01EB", "U+01EC", "U+01ED",
    "U+01EE", "U+01EF", "U+01F0", "U+01F1", "U+01F2", "U+01F3", "U+01F4",
    "U+01F5", "U+01F6", "U+01F7", "U+01F8", "U+01F9", "U+01FA", "U+01FB",
    "U+01FC", "U+01FD", "U+01FE", "U+01FF", "U+0200", "U+0201", "U+0202",
    "U+0203", "U+0204", "U+0205", "U+0206", "U+0207", "U+0208", "U+0209",
    "U+020A", "U+020B", "U+020C", "U+020D", "U+020E", "U+020F", "U+0210",
    "U+0211", "U+0212", "U+0213", "U+0214", "U+0215", "U+0216", "U+0217",
    "U+0218", "U+0219", "U+021A", "U+021B", "U+021C", "U+021D", "U+021E",
    "U+021F", "U+0220", "U+0221", "U+0222", "U+0223", "U+0224", "U+0225",
    "U+0226", "U+0227", "U+0228", "U+0229", "U+022A", "U+022B", "U+022C",
    "U+022D", "U+022E", "U+022F", "U+0230", "U+0231", "U+0232", "U+0233",
    "U+0234", "U+0235", "U+0236", "U+0237", "U+0238", "U+0239", "U+023A",
    "U+023B", "U+023C", "U+023D", "U+023E", "U+023F", "U+0240", "U+0241",
    "U+0242", "U+0243", "U+0244", "U+0245", "U+0246", "U+0247", "U+0248",
    "U+0249", "U+024A", "U+024B", "U+024C", "U+024D", "U+024E", "U+024F",
    "U+0250", "U+0251", "U+0252", "U+0253", "U+0254", "U+0255", "U+0256",
    "U+0257", "U+0258", "U+0259", "U+025A", "U+025B", "U+025C", "U+025D",
    "U+025E", "U+025F", "U+0260", "U+0261", "U+0262", "U+0263", "U+0264",
    "U+0265", "U+0266", "U+0267", "U+0268", "U+0269", "U+026A", "U+026B",
    "U+026C", "U+026D", "U+026E", "U+026F", "U+0270", "U+0271", "U+0272",
    "U+0273", "U+0274", "U+0275", "U+0276", "U+0277", "U+0278", "U+0279",
    "U+027A", "U+027B", "U+027C", "U+027D", "U+027E", "U+027F", "U+0280",
    "U+0281", "U+0282", "U+0283", "U+0284", "U+0285", "U+0286", "U+0287",
    "U+0288", "U+0289", "U+028A", "U+028B", "U+028C", "U+028D", "U+028E",
    "U+028F", "U+0290", "U+0291", "U+0292", "U+0293", "U+0295", "U+0296",
    "U+0297", "U+0298", "U+0299", "U+029A", "U+029B", "U+029C", "U+029D",
    "U+029E", "U+029F", "U+02A0", "U+02A1", "U+02A2", "U+02A3", "U+02A4",
    "U+02A5", "U+02A6", "U+02A7", "U+02A8", "U+02A9", "U+02AA", "U+02AB",
    "U+02AC", "U+02AD", "U+02AE", "U+02AF", "U+02B0", "U+02B1", "U+02B2",
    "U+02B3", "U+02B4", "U+02B5", "U+02B6", "U+02B7", "U+02B8", "U+02C0",
    "U+02C1", "U+02E0", "U+02E1", "U+02E2", "U+02E3", "U+02E4", "U+0345",
    "U+0370", "U+0371", "U+0372", "U+0373", "U+0376", "U+0377", "U+037A",
    "U+037B", "U+037C", "U+037D", "U+037F", "U+0386", "U+0388", "U+0389",
    "U+038A", "U+038C", "U+038E", "U+038F", "U+0390", "U+0391", "U+0392",
    "U+0393", "U+0394", "U+0395", "U+0396", "U+0397", "U+0398", "U+0399",
    "U+039A", "U+039B", "U+039C", "U+039D", "U+039E", "U+039F", "U+03A0",
    "U+03A1", "U+03A3", "U+03A4", "U+03A5", "U+03A6", "U+03A7", "U+03A8",
    "U+03A9", "U+03AA", "U+03AB", "U+03AC", "U+03AD", "U+03AE", "U+03AF",
    "U+03B0", "U+03B1", "U+03B2", "U+03B3", "U+03B4", "U+03B5", "U+03B6",
    "U+03B7", "U+03B8", "U+03B9", "U+03BA", "U+03BB", "U+03BC", "U+03BD",
    "U+03BE", "U+03BF", "U+03C0", "U+03C1", "U+03C2", "U+03C3", "U+03C4",
    "U+03C5", "U+03C6", "U+03C7", "U+03C8", "U+03C9", "U+03CA", "U+03CB",
    "U+03CC", "U+03CD", "U+03CE", "U+03CF", "U+03D0", "U+03D1", "U+03D2",
    "U+03D3", "U+03D4", "U+03D5", "U+03D6", "U+03D7", "U+03D8", "U+03D9",
    "U+03DA", "U+03DB", "U+03DC", "U+03DD", "U+03DE", "U+03DF", "U+03E0",
    "U+03E1", "U+03E2", "U+03E3", "U+03E4", "U+03E5", "U+03E6", "U+03E7",
    "U+03E8", "U+03E9", "U+03EA", "U+03EB", "U+03EC", "U+03ED", "U+03EE",
    "U+03EF", "U+03F0", "U+03F1", "U+03F2", "U+03F3", "U+03F4", "U+03F5",
    "U+03F7", "U+03F8", "U+03F9", "U+03FA", "U+03FB", "U+03FC", "U+03FD",
    "U+03FE", "U+03FF", "U+0400", "U+0401", "U+0402", "U+0403", "U+0404",
    "U+0405", "U+0406", "U+0407", "U+0408", "U+0409", "U+040A", "U+040B",
    "U+040C", "U+040D", "U+040E", "U+040F", "U+0410", "U+0411", "U+0412",
    "U+0413", "U+0414", "U+0415", "U+0416", "U+0417", "U+0418", "U+0419",
    "U+041A", "U+041B", "U+041C", "U+041D", "U+041E", "U+041F", "U+0420",
    "U+0421", "U+0422", "U+0423", "U+0424", "U+0425", "U+0426", "U+0427",
    "U+0428", "U+0429", "U+042A", "U+042B", "U+042C", "U+042D", "U+042E",
    "U+042F", "U+0430", "U+0431", "U+0432", "U+0433", "U+0434", "U+0435",
    "U+0436", "U+0437", "U+0438", "U+0439", "U+043A", "U+043B", "U+043C",
    "U+043D", "U+043E", "U+043F", "U+0440", "U+0441", "U+0442", "U+0443",
    "U+0444", "U+0445", "U+0446", "U+0447", "U+0448", "U+0449", "U+044A",
    "U+044B", "U+044C", "U+044D", "U+044E", "U+044F", "U+0450", "U+0451",
    "U+0452", "U+0453", "U+0454", "U+0455", "U+0456", "U+0457", "U+0458",
    "U+0459", "U+045A", "U+045B", "U+045C", "U+045D", "U+045E", "U+045F",
    "U+0460", "U+0461", "U+0462", "U+0463", "U+0464", "U+0465", "U+0466",
    "U+0467", "U+0468", "U+0469", "U+046A", "U+046B", "U+046C", "U+046D",
    "U+046E", "U+046F", "U+0470", "U+0471", "U+0472", "U+0473", "U+0474",
    "U+0475", "U+0476", "U+0477", "U+0478", "U+0479", "U+047A", "U+047B",
    "U+047C", "U+047D", "U+047E", "U+047F", "U+0480", "U+0481", "U+048A",
    "U+048B", "U+048C", "U+048D", "U+048E", "U+048F", "U+0490", "U+0491",
    "U+0492", "U+0493", "U+0494", "U+0495", "U+0496", "U+0497", "U+0498",
    "U+0499", "U+049A", "U+049B", "U+049C", "U+049D", "U+049E", "U+049F",
    "U+04A0", "U+04A1", "U+04A2", "U+04A3", "U+04A4", "U+04A5", "U+04A6",
    "U+04A7", "U+04A8", "U+04A9", "U+04AA", "U+04AB", "U+04AC", "U+04AD",
    "U+04AE", "U+04AF", "U+04B0", "U+04B1", "U+04B2", "U+04B3", "U+04B4",
    "U+04B5", "U+04B6", "U+04B7", "U+04B8", "U+04B9", "U+04BA", "U+04BB",
    "U+04BC", "U+04BD", "U+04BE", "U+04BF", "U+04C0", "U+04C1", "U+04C2",
    "U+04C3", "U+04C4", "U+04C5", "U+04C6", "U+04C7", "U+04C8", "U+04C9",
    "U+04CA", "U+04CB", "U+04CC", "U+04CD", "U+04CE", "U+04CF", "U+04D0",
    "U+04D1", "U+04D2", "U+04D3", "U+04D4", "U+04D5", "U+04D6", "U+04D7",
    "U+04D8", "U+04D9", "U+04DA", "U+04DB", "U+04DC", "U+04DD", "U+04DE",
    "U+04DF", "U+04E0", "U+04E1", "U+04E2", "U+04E3", "U+04E4", "U+04E5",
    "U+04E6", "U+04E7", "U+04E8", "U+04E9", "U+04EA", "U+04EB", "U+04EC",
    "U+04ED", "U+04EE", "U+04EF", "U+04F0", "U+04F1", "U+04F2", "U+04F3",
    "U+04F4", "U+04F5", "U+04F6", "U+04F7", "U+04F8", "U+04F9", "U+04FA",
    "U+04FB", "U+04FC", "U+04FD", "U+04FE", "U+04FF", "U+0500", "U+0501",
    "U+0502", "U+0503", "U+0504", "U+0505", "U+0506", "U+0507", "U+0508",
    "U+0509", "U+050A", "U+050B", "U+050C", "U+050D", "U+050E", "U+050F",
    "U+0510", "U+0511", "U+0512", "U+0513", "U+0514", "U+0515", "U+0516",
    "U+0517", "U+0518", "U+0519", "U+051A", "U+051B", "U+051C", "U+051D",
    "U+051E", "U+051F", "U+0520", "U+0521", "U+0522", "U+0523", "U+0524",
    "U+0525", "U+0526", "U+0527", "U+0528", "U+0529", "U+052A", "U+052B",
    "U+052C", "U+052D", "U+052E", "U+052F", "U+0531", "U+0532", "U+0533",
    "U+0534", "U+0535", "U+0536", "U+0537", "U+0538", "U+0539", "U+053A",
    "U+053B", "U+053C", "U+053D", "U+053E", "U+053F", "U+0540", "U+0541",
    "U+0542", "U+0543", "U+0544", "U+0545", "U+0546", "U+0547", "U+0548",
    "U+0549", "U+054A", "U+054B", "U+054C", "U+054D", "U+054E", "U+054F",
    "U+0550", "U+0551", "U+0552", "U+0553", "U+0554", "U+0555", "U+0556",
    "U+0560", "U+0561", "U+0562", "U+0563", "U+0564", "U+0565", "U+0566",
    "U+0567", "U+0568", "U+0569", "U+056A", "U+056B", "U+056C", "U+056D",
    "U+056E", "U+056F", "U+0570", "U+0571", "U+0572", "U+0573", "U+0574",
    "U+0575", "U+0576", "U+0577", "U+0578", "U+0579", "U+057A", "U+057B",
    "U+057C", "U+057D", "U+057E", "U+057F", "U+0580", "U+0581", "U+0582",
    "U+0583", "U+0584", "U+0585", "U+0586", "U+0587", "U+0588", "U+10A0",
    "U+10A1", "U+10A2", "U+10A3", "U+10A4", "U+10A5", "U+10A6", "U+10A7",
    "U+10A8", "U+10A9", "U+10AA", "U+10AB", "U+10AC", "U+10AD", "U+10AE",
    "U+10AF", "U+10B0", "U+10B1", "U+10B2", "U+10B3", "U+10B4", "U+10B5",
    "U+10B6", "U+10B7", "U+10B8", "U+10B9", "U+10BA", "U+10BB", "U+10BC",
    "U+10BD", "U+10BE", "U+10BF", "U+10C0", "U+10C1", "U+10C2", "U+10C3",
    "U+10C4", "U+10C5", "U+10C7", "U+10CD", "U+10D0", "U+10D1", "U+10D2",
    "U+10D3", "U+10D4", "U+10D5", "U+10D6", "U+10D7", "U+10D8", "U+10D9",
    "U+10DA", "U+10DB", "U+10DC", "U+10DD", "U+10DE", "U+10DF", "U+10E0",
    "U+10E1", "U+10E2", "U+10E3", "U+10E4", "U+10E5", "U+10E6", "U+10E7",
    "U+10E8", "U+10E9", "U+10EA", "U+10EB", "U+10EC", "U+10ED", "U+10EE",
    "U+10EF", "U+10F0", "U+10F1", "U+10F2", "U+10F3", "U+10F4", "U+10F5",
    "U+10F6", "U+10F7", "U+10F8", "U+10F9", "U+10FA", "U+10FD", "U+10FE",
    "U+10FF", "U+13A0", "U+13A1", "U+13A2", "U+13A3", "U+13A4", "U+13A5",
    "U+13A6", "U+13A7", "U+13A8", "U+13A9", "U+13AA", "U+13AB", "U+13AC",
    "U+13AD", "U+13AE", "U+13AF", "U+13B0", "U+13B1", "U+13B2", "U+13B3",
    "U+13B4", "U+13B5", "U+13B6", "U+13B7", "U+13B8", "U+13B9", "U+13BA",
    "U+13BB", "U+13BC", "U+13BD", "U+13BE", "U+13BF", "U+13C0", "U+13C1",
    "U+13C2", "U+13C3", "U+13C4", "U+13C5", "U+13C6", "U+13C7", "U+13C8",
    "U+13C9", "U+13CA", "U+13CB", "U+13CC", "U+13CD", "U+13CE", "U+13CF",
    "U+13D0", "U+13D1", "U+13D2", "U+13D3", "U+13D4", "U+13D5", "U+13D6",
    "U+13D7", "U+13D8", "U+13D9", "U+13DA", "U+13DB", "U+13DC", "U+13DD",
    "U+13DE", "U+13DF", "U+13E0", "U+13E1", "U+13E2", "U+13E3", "U+13E4",
    "U+13E5", "U+13E6", "U+13E7", "U+13E8", "U+13E9", "U+13EA", "U+13EB",
    "U+13EC", "U+13ED", "U+13EE", "U+13EF", "U+13F0", "U+13F1", "U+13F2",
    "U+13F3", "U+13F4", "U+13F5", "U+13F8", "U+13F9", "U+13FA", "U+13FB",
    "U+13FC", "U+13FD", "U+1C80", "U+1C81", "U+1C82", "U+1C83", "U+1C84",
    "U+1C85", "U+1C86", "U+1C87", "U+1C88", "U+1C90", "U+1C91", "U+1C92",
    "U+1C93", "U+1C94", "U+1C95", "U+1C96", "U+1C97", "U+1C98", "U+1C99",
    "U+1C9A", "U+1C9B", "U+1C9C", "U+1C9D", "U+1C9E", "U+1C9F", "U+1CA0",
    "U+1CA1", "U+1CA2", "U+1CA3", "U+1CA4", "U+1CA5", "U+1CA6", "U+1CA7",
    "U+1CA8", "U+1CA9", "U+1CAA", "U+1CAB", "U+1CAC", "U+1CAD", "U+1CAE",
    "U+1CAF", "U+1CB0", "U+1CB1", "U+1CB2", "U+1CB3", "U+1CB4", "U+1CB5",
    "U+1CB6", "U+1CB7", "U+1CB8", "U+1CB9", "U+1CBA", "U+1CBD", "U+1CBE",
    "U+1CBF", "U+1D00", "U+1D01", "U+1D02", "U+1D03", "U+1D04", "U+1D05",
    "U+1D06", "U+1D07", "U+1D08", "U+1D09", "U+1D0A", "U+1D0B", "U+1D0C",
    "U+1D0D", "U+1D0E", "U+1D0F", "U+1D10", "U+1D11", "U+1D12", "U+1D13",
    "U+1D14", "U+1D15", "U+1D16", "U+1D17", "U+1D18", "U+1D19", "U+1D1A",
    "U+1D1B", "U+1D1C", "U+1D1D", "U+1D1E", "U+1D1F", "U+1D20", "U+1D21",
    "U+1D22", "U+1D23", "U+1D24", "U+1D25", "U+1D26", "U+1D27", "U+1D28",
    "U+1D29", "U+1D2A", "U+1D2B", "U+1D2C", "U+1D2D", "U+1D2E", "U+1D2F",
    "U+1D30", "U+1D31", "U+1D32", "U+1D33", "U+1D34", "U+1D35", "U+1D36",
    "U+1D37", "U+1D38", "U+1D39", "U+1D3A", "U+1D3B", "U+1D3C", "U+1D3D",
    "U+1D3E", "U+1D3F", "U+1D40", "U+1D41", "U+1D42", "U+1D43", "U+1D44",
    "U+1D45", "U+1D46", "U+1D47", "U+1D48", "U+1D49", "U+1D4A", "U+1D4B",
    "U+1D4C", "U+1D4D", "U+1D4E", "U+1D4F", "U+1D50", "U+1D51", "U+1D52",
    "U+1D53", "U+1D54", "U+1D55", "U+1D56", "U+1D57", "U+1D58", "U+1D59",
    "U+1D5A", "U+1D5B", "U+1D5C", "U+1D5D", "U+1D5E", "U+1D5F", "U+1D60",
    "U+1D61", "U+1D62", "U+1D63", "U+1D64", "U+1D65", "U+1D66", "U+1D67",
    "U+1D68", "U+1D69", "U+1D6A", "U+1D6B", "U+1D6C", "U+1D6D", "U+1D6E",
    "U+1D6F", "U+1D70", "U+1D71", "U+1D72", "U+1D73", "U+1D74", "U+1D75",
    "U+1D76", "U+1D77", "U+1D78", "U+1D79", "U+1D7A", "U+1D7B", "U+1D7C",
    "U+1D7D", "U+1D7E", "U+1D7F", "U+1D80", "U+1D81", "U+1D82", "U+1D83",
    "U+1D84", "U+1D85", "U+1D86", "U+1D87", "U+1D88", "U+1D89", "U+1D8A",
    "U+1D8B", "U+1D8C", "U+1D8D", "U+1D8E", "U+1D8F", "U+1D90", "U+1D91",
    "U+1D92", "U+1D93", "U+1D94", "U+1D95", "U+1D96", "U+1D97", "U+1D98",
    "U+1D99", "U+1D9A", "U+1D9B", "U+1D9C", "U+1D9D", "U+1D9E", "U+1D9F",
    "U+1DA0", "U+1DA1", "U+1DA2", "U+1DA3", "U+1DA4", "U+1DA5", "U+1DA6",
    "U+1DA7", "U+1DA8", "U+1DA9", "U+1DAA", "U+1DAB", "U+1DAC", "U+1DAD",
    "U+1DAE", "U+1DAF", "U+1DB0", "U+1DB1", "U+1DB2", "U+1DB3", "U+1DB4",
    "U+1DB5", "U+1DB6", "U+1DB7", "U+1DB8", "U+1DB9", "U+1DBA", "U+1DBB",
    "U+1DBC", "U+1DBD", "U+1DBE", "U+1DBF", "U+1E00", "U+1E01", "U+1E02",
    "U+1E03", "U+1E04", "U+1E05", "U+1E06", "U+1E07", "U+1E08", "U+1E09",
    "U+1E0A", "U+1E0B", "U+1E0C", "U+1E0D", "U+1E0E", "U+1E0F", "U+1E10",
    "U+1E11", "U+1E12", "U+1E13", "U+1E14", "U+1E15", "U+1E16", "U+1E17",
    "U+1E18", "U+1E19", "U+1E1A", "U+1E1B", "U+1E1C", "U+1E1D", "U+1E1E",
    "U+1E1F", "U+1E20", "U+1E21", "U+1E22", "U+1E23", "U+1E24", "U+1E25",
    "U+1E26", "U+1E27", "U+1E28", "U+1E29", "U+1E2A", "U+1E2B", "U+1E2C",
    "U+1E2D", "U+1E2E", "U+1E2F", "U+1E30", "U+1E31", "U+1E32", "U+1E33",
    "U+1E34", "U+1E35", "U+1E36", "U+1E37", "U+1E38", "U+1E39", "U+1E3A",
    "U+1E3B", "U+1E3C", "U+1E3D", "U+1E3E", "U+1E3F", "U+1E40", "U+1E41",
    "U+1E42", "U+1E43", "U+1E44", "U+1E45", "U+1E46", "U+1E47", "U+1E48",
    "U+1E49", "U+1E4A", "U+1E4B", "U+1E4C", "U+1E4D", "U+1E4E", "U+1E4F",
    "U+1E50", "U+1E51", "U+1E52", "U+1E53", "U+1E54", "U+1E55", "U+1E56",
    "U+1E57", "U+1E58", "U+1E59", "U+1E5A", "U+1E5B", "U+1E5C", "U+1E5D",
    "U+1E5E", "U+1E5F", "U+1E60", "U+1E61", "U+1E62", "U+1E63", "U+1E64",
    "U+1E65", "U+1E66", "U+1E67", "U+1E68", "U+1E69", "U+1E6A", "U+1E6B",
    "U+1E6C", "U+1E6D", "U+1E6E", "U+1E6F", "U+1E70", "U+1E71", "U+1E72",
    "U+1E73", "U+1E74", "U+1E75", "U+1E76", "U+1E77", "U+1E78", "U+1E79",
    "U+1E7A", "U+1E7B", "U+1E7C", "U+1E7D", "U+1E7E", "U+1E7F", "U+1E80",
    "U+1E81", "U+1E82", "U+1E83", "U+1E84", "U+1E85", "U+1E86", "U+1E87",
    "U+1E88", "U+1E89", "U+1E8A", "U+1E8B", "U+1E8C", "U+1E8D", "U+1E8E",
    "U+1E8F", "U+1E90", "U+1E91", "U+1E92", "U+1E93", "U+1E94", "U+1E95",
    "U+1E96", "U+1E97", "U+1E98", "U+1E99", "U+1E9A", "U+1E9B", "U+1E9C",
    "U+1E9D", "U+1E9E", "U+1E9F", "U+1EA0", "U+1EA1", "U+1EA2", "U+1EA3",
    "U+1EA4", "U+1EA5", "U+1EA6", "U+1EA7", "U+1EA8", "U+1EA9", "U+1EAA",
    "U+1EAB", "U+1EAC", "U+1EAD", "U+1EAE", "U+1EAF", "U+1EB0", "U+1EB1",
    "U+1EB2", "U+1EB3", "U+1EB4", "U+1EB5", "U+1EB6", "U+1EB7", "U+1EB8",
    "U+1EB9", "U+1EBA", "U+1EBB", "U+1EBC", "U+1EBD", "U+1EBE", "U+1EBF",
    "U+1EC0", "U+1EC1", "U+1EC2", "U+1EC3", "U+1EC4", "U+1EC5", "U+1EC6",
    "U+1EC7", "U+1EC8", "U+1EC9", "U+1ECA", "U+1ECB", "U+1ECC", "U+1ECD",
    "U+1ECE", "U+1ECF", "U+1ED0", "U+1ED1", "U+1ED2", "U+1ED3", "U+1ED4",
    "U+1ED5", "U+1ED6", "U+1ED7", "U+1ED8", "U+1ED9", "U+1EDA", "U+1EDB",
    "U+1EDC", "U+1EDD", "U+1EDE", "U+1EDF", "U+1EE0", "U+1EE1", "U+1EE2",
    "U+1EE3", "U+1EE4", "U+1EE5", "U+1EE6", "U+1EE7", "U+1EE8", "U+1EE9",
    "U+1EEA", "U+1EEB", "U+1EEC", "U+1EED", "U+1EEE", "U+1EEF", "U+1EF0",
    "U+1EF1", "U+1EF2", "U+1EF3", "U+1EF4", "U+1EF5", "U+1EF6", "U+1EF7",
    "U+1EF8", "U+1EF9", "U+1EFA", "U+1EFB", "U+1EFC", "U+1EFD", "U+1EFE",
    "U+1EFF", "U+1F00", "U+1F01", "U+1F02", "U+1F03", "U+1F04", "U+1F05",
    "U+1F06", "U+1F07", "U+1F08", "U+1F09", "U+1F0A", "U+1F0B", "U+1F0C",
    "U+1F0D", "U+1F0E", "U+1F0F", "U+1F10", "U+1F11", "U+1F12", "U+1F13",
    "U+1F14", "U+1F15", "U+1F18", "U+1F19", "U+1F1A", "U+1F1B", "U+1F1C",
    "U+1F1D", "U+1F20", "U+1F21", "U+1F22", "U+1F23", "U+1F24", "U+1F25",
    "U+1F26", "U+1F27", "U+1F28", "U+1F29", "U+1F2A", "U+1F2B", "U+1F2C",
    "U+1F2D", "U+1F2E", "U+1F2F", "U+1F30", "U+1F31", "U+1F32", "U+1F33",
    "U+1F34", "U+1F35", "U+1F36", "U+1F37", "U+1F38", "U+1F39", "U+1F3A",
    "U+1F3B", "U+1F3C", "U+1F3D", "U+1F3E", "U+1F3F", "U+1F40", "U+1F41",
    "U+1F42", "U+1F43", "U+1F44", "U+1F45", "U+1F48", "U+1F49", "U+1F4A",
    "U+1F4B", "U+1F4C", "U+1F4D", "U+1F50", "U+1F51", "U+1F52", "U+1F53",
    "U+1F54", "U+1F55", "U+1F56", "U+1F57", "U+1F59", "U+1F5B", "U+1F5D",
    "U+1F5F", "U+1F60", "U+1F61", "U+1F62", "U+1F63", "U+1F64", "U+1F65",
    "U+1F66", "U+1F67", "U+1F68", "U+1F69", "U+1F6A", "U+1F6B", "U+1F6C",
    "U+1F6D", "U+1F6E", "U+1F6F", "U+1F70", "U+1F71", "U+1F72", "U+1F73",
    "U+1F74", "U+1F75", "U+1F76", "U+1F77", "U+1F78", "U+1F79", "U+1F7A",
    "U+1F7B", "U+1F7C", "U+1F7D", "U+1F80", "U+1F81", "U+1F82", "U+1F83",
    "U+1F84", "U+1F85", "U+1F86", "U+1F87", "U+1F88", "U+1F89", "U+1F8A",
    "U+1F8B", "U+1F8C", "U+1F8D", "U+1F8E", "U+1F8F", "U+1F90", "U+1F91",
    "U+1F92", "U+1F93", "U+1F94", "U+1F95", "U+1F96", "U+1F97", "U+1F98",
    "U+1F99", "U+1F9A", "U+1F9B", "U+1F9C", "U+1F9D", "U+1F9E", "U+1F9F",
    "U+1FA0", "U+1FA1", "U+1FA2", "U+1FA3", "U+1FA4", "U+1FA5", "U+1FA6",
    "U+1FA7", "U+1FA8", "U+1FA9", "U+1FAA", "U+1FAB", "U+1FAC", "U+1FAD",
    "U+1FAE", "U+1FAF", "U+1FB0", "U+1FB1", "U+1FB2", "U+1FB3", "U+1FB4",
    "U+1FB6", "U+1FB7", "U+1FB8", "U+1FB9", "U+1FBA", "U+1FBB", "U+1FBC",
    "U+1FBE", "U+1FC2", "U+1FC3", "U+1FC4", "U+1FC6", "U+1FC7", "U+1FC8",
    "U+1FC9", "U+1FCA", "U+1FCB", "U+1FCC", "U+1FD0", "U+1FD1", "U+1FD2",
    "U+1FD3", "U+1FD6", "U+1FD7", "U+1FD8", "U+1FD9", "U+1FDA", "U+1FDB",
    "U+1FE0", "U+1FE1", "U+1FE2", "U+1FE3", "U+1FE4", "U+1FE5", "U+1FE6",
    "U+1FE7", "U+1FE8", "U+1FE9", "U+1FEA", "U+1FEB", "U+1FEC", "U+1FF2",
    "U+1FF3", "U+1FF4", "U+1FF6", "U+1FF7", "U+1FF8", "U+1FF9", "U+1FFA",
    "U+1FFB", "U+1FFC", "U+2071", "U+207F", "U+2090", "U+2091", "U+2092",
    "U+2093", "U+2094", "U+2095", "U+2096", "U+2097", "U+2098", "U+2099",
    "U+209A", "U+209B", "U+209C", "U+2102", "U+2107", "U+210A", "U+210B",
    "U+210C", "U+210D", "U+210E", "U+210F", "U+2110", "U+2111", "U+2112",
    "U+2113", "U+2115", "U+2119", "U+211A", "U+211B", "U+211C", "U+211D",
    "U+2124", "U+2126", "U+2128", "U+212A", "U+212B", "U+212C", "U+212D",
    "U+212F", "U+2130", "U+2131", "U+2132", "U+2133", "U+2134", "U+2139",
    "U+213C", "U+213D", "U+213E", "U+213F", "U+2145", "U+2146", "U+2147",
    "U+2148", "U+2149", "U+214E", "U+2160", "U+2161", "U+2162", "U+2163",
    "U+2164", "U+2165", "U+2166", "U+2167", "U+2168", "U+2169", "U+216A",
    "U+216B", "U+216C", "U+216D", "U+216E", "U+216F", "U+2170", "U+2171",
    "U+2172", "U+2173", "U+2174", "U+2175", "U+2176", "U+2177", "U+2178",
    "U+2179", "U+217A", "U+217B", "U+217C", "U+217D", "U+217E", "U+217F",
    "U+2183", "U+2184", "U+24B6", "U+24B7", "U+24B8", "U+24B9", "U+24BA",
    "U+24BB", "U+24BC", "U+24BD", "U+24BE", "U+24BF", "U+24C0", "U+24C1",
    "U+24C2", "U+24C3", "U+24C4", "U+24C5", "U+24C6", "U+24C7", "U+24C8",
    "U+24C9", "U+24CA", "U+24CB", "U+24CC", "U+24CD", "U+24CE", "U+24CF",
    "U+24D0", "U+24D1", "U+24D2", "U+24D3", "U+24D4", "U+24D5", "U+24D6",
    "U+24D7", "U+24D8", "U+24D9", "U+24DA", "U+24DB", "U+24DC", "U+24DD",
    "U+24DE", "U+24DF", "U+24E0", "U+24E1", "U+24E2", "U+24E3", "U+24E4",
    "U+24E5", "U+24E6", "U+24E7", "U+24E8", "U+24E9", "U+2C00", "U+2C01",
    "U+2C02", "U+2C03", "U+2C04", "U+2C05", "U+2C06", "U+2C07", "U+2C08",
    "U+2C09", "U+2C0A", "U+2C0B", "U+2C0C", "U+2C0D", "U+2C0E", "U+2C0F",
    "U+2C10", "U+2C11", "U+2C12", "U+2C13", "U+2C14", "U+2C15", "U+2C16",
    "U+2C17", "U+2C18", "U+2C19", "U+2C1A", "U+2C1B", "U+2C1C", "U+2C1D",
    "U+2C1E", "U+2C1F", "U+2C20", "U+2C21", "U+2C22", "U+2C23", "U+2C24",
    "U+2C25", "U+2C26", "U+2C27", "U+2C28", "U+2C29", "U+2C2A", "U+2C2B",
    "U+2C2C", "U+2C2D", "U+2C2E", "U+2C2F", "U+2C30", "U+2C31", "U+2C32",
    "U+2C33", "U+2C34", "U+2C35", "U+2C36", "U+2C37", "U+2C38", "U+2C39",
    "U+2C3A", "U+2C3B", "U+2C3C", "U+2C3D", "U+2C3E", "U+2C3F", "U+2C40",
    "U+2C41", "U+2C42", "U+2C43", "U+2C44", "U+2C45", "U+2C46", "U+2C47",
    "U+2C48", "U+2C49", "U+2C4A", "U+2C4B", "U+2C4C", "U+2C4D", "U+2C4E",
    "U+2C4F", "U+2C50", "U+2C51", "U+2C52", "U+2C53", "U+2C54", "U+2C55",
    "U+2C56", "U+2C57", "U+2C58", "U+2C59", "U+2C5A", "U+2C5B", "U+2C5C",
    "U+2C5D", "U+2C5E", "U+2C5F", "U+2C60", "U+2C61", "U+2C62", "U+2C63",
    "U+2C64", "U+2C65", "U+2C66", "U+2C67", "U+2C68", "U+2C69", "U+2C6A",
    "U+2C6B", "U+2C6C", "U+2C6D", "U+2C6E", "U+2C6F", "U+2C70", "U+2C71",
    "U+2C72", "U+2C73", "U+2C74", "U+2C75", "U+2C76", "U+2C77", "U+2C78",
    "U+2C79", "U+2C7A", "U+2C7B", "U+2C7C", "U+2C7D", "U+2C7E", "U+2C7F",
    "U+2C80", "U+2C81", "U+2C82", "U+2C83", "U+2C84", "U+2C85", "U+2C86",
    "U+2C87", "U+2C88", "U+2C89", "U+2C8A", "U+2C8B", "U+2C8C", "U+2C8D",
    "U+2C8E", "U+2C8F", "U+2C90", "U+2C91", "U+2C92", "U+2C93", "U+2C94",
    "U+2C95", "U+2C96", "U+2C97", "U+2C98", "U+2C99", "U+2C9A", "U+2C9B",
    "U+2C9C", "U+2C9D", "U+2C9E", "U+2C9F", "U+2CA0", "U+2CA1", "U+2CA2",
    "U+2CA3", "U+2CA4", "U+2CA5", "U+2CA6", "U+2CA7", "U+2CA8", "U+2CA9",
    "U+2CAA", "U+2CAB", "U+2CAC", "U+2CAD", "U+2CAE", "U+2CAF", "U+2CB0",
    "U+2CB1", "U+2CB2", "U+2CB3", "U+2CB4", "U+2CB5", "U+2CB6", "U+2CB7",
    "U+2CB8", "U+2CB9", "U+2CBA", "U+2CBB", "U+2CBC", "U+2CBD", "U+2CBE",
    "U+2CBF", "U+2CC0", "U+2CC1", "U+2CC2", "U+2CC3", "U+2CC4", "U+2CC5",
    "U+2CC6", "U+2CC7", "U+2CC8", "U+2CC9", "U+2CCA", "U+2CCB", "U+2CCC",
    "U+2CCD", "U+2CCE", "U+2CCF", "U+2CD0", "U+2CD1", "U+2CD2", "U+2CD3",
    "U+2CD4", "U+2CD5", "U+2CD6", "U+2CD7", "U+2CD8", "U+2CD9", "U+2CDA",
    "U+2CDB", "U+2CDC", "U+2CDD", "U+2CDE", "U+2CDF", "U+2CE0", "U+2CE1",
    "U+2CE2", "U+2CE3", "U+2CE4", "U+2CEB", "U+2CEC", "U+2CED", "U+2CEE",
    "U+2CF2", "U+2CF3", "U+2D00", "U+2D01", "U+2D02", "U+2D03", "U+2D04",
    "U+2D05", "U+2D06", "U+2D07", "U+2D08", "U+2D09", "U+2D0A", "U+2D0B",
    "U+2D0C", "U+2D0D", "U+2D0E", "U+2D0F", "U+2D10", "U+2D11", "U+2D12",
    "U+2D13", "U+2D14", "U+2D15", "U+2D16", "U+2D17", "U+2D18", "U+2D19",
    "U+2D1A", "U+2D1B", "U+2D1C", "U+2D1D", "U+2D1E", "U+2D1F", "U+2D20",
    "U+2D21", "U+2D22", "U+2D23", "U+2D24", "U+2D25", "U+2D27", "U+2D2D",
    "U+A640", "U+A641", "U+A642", "U+A643", "U+A644", "U+A645", "U+A646",
    "U+A647", "U+A648", "U+A649", "U+A64A", "U+A64B", "U+A64C", "U+A64D",
    "U+A64E", "U+A64F", "U+A650", "U+A651", "U+A652", "U+A653", "U+A654",
    "U+A655", "U+A656", "U+A657", "U+A658", "U+A659", "U+A65A", "U+A65B",
    "U+A65C", "U+A65D", "U+A65E", "U+A65F", "U+A660", "U+A661", "U+A662",
    "U+A663", "U+A664", "U+A665", "U+A666", "U+A667", "U+A668", "U+A669",
    "U+A66A", "U+A66B", "U+A66C", "U+A66D", "U+A680", "U+A681", "U+A682",
    "U+A683", "U+A684", "U+A685", "U+A686", "U+A687", "U+A688", "U+A689",
    "U+A68A", "U+A68B", "U+A68C", "U+A68D", "U+A68E", "U+A68F", "U+A690",
    "U+A691", "U+A692", "U+A693", "U+A694", "U+A695", "U+A696", "U+A697",
    "U+A698", "U+A699", "U+A69A", "U+A69B", "U+A69C", "U+A69D", "U+A722",
    "U+A723", "U+A724", "U+A725", "U+A726", "U+A727", "U+A728", "U+A729",
    "U+A72A", "U+A72B", "U+A72C", "U+A72D", "U+A72E", "U+A72F", "U+A730",
    "U+A731", "U+A732", "U+A733", "U+A734", "U+A735", "U+A736", "U+A737",
    "U+A738", "U+A739", "U+A73A", "U+A73B", "U+A73C", "U+A73D", "U+A73E",
    "U+A73F", "U+A740", "U+A741", "U+A742", "U+A743", "U+A744", "U+A745",
    "U+A746", "U+A747", "U+A748", "U+A749", "U+A74A", "U+A74B", "U+A74C",
    "U+A74D", "U+A74E", "U+A74F", "U+A750", "U+A751", "U+A752", "U+A753",
    "U+A754", "U+A755", "U+A756", "U+A757", "U+A758", "U+A759", "U+A75A",
    "U+A75B", "U+A75C", "U+A75D", "U+A75E", "U+A75F", "U+A760", "U+A761",
    "U+A762", "U+A763", "U+A764", "U+A765", "U+A766", "U+A767", "U+A768",
    "U+A769", "U+A76A", "U+A76B", "U+A76C", "U+A76D", "U+A76E", "U+A76F",
    "U+A770", "U+A771", "U+A772", "U+A773", "U+A774", "U+A775", "U+A776",
    "U+A777", "U+A778", "U+A779", "U+A77A", "U+A77B", "U+A77C", "U+A77D",
    "U+A77E", "U+A77F", "U+A780", "U+A781", "U+A782", "U+A783", "U+A784",
    "U+A785", "U+A786", "U+A787", "U+A78B", "U+A78C", "U+A78D", "U+A78E",
    "U+A790", "U+A791", "U+A792", "U+A793", "U+A794", "U+A795", "U+A796",
    "U+A797", "U+A798", "U+A799", "U+A79A", "U+A79B", "U+A79C", "U+A79D",
    "U+A79E", "U+A79F", "U+A7A0", "U+A7A1", "U+A7A2", "U+A7A3", "U+A7A4",
    "U+A7A5", "U+A7A6", "U+A7A7", "U+A7A8", "U+A7A9", "U+A7AA", "U+A7AB",
    "U+A7AC", "U+A7AD", "U+A7AE", "U+A7AF", "U+A7B0", "U+A7B1", "U+A7B2",
    "U+A7B3", "U+A7B4", "U+A7B5", "U+A7B6", "U+A7B7", "U+A7B8", "U+A7B9",
    "U+A7BA", "U+A7BB", "U+A7BC", "U+A7BD", "U+A7BE", "U+A7BF", "U+A7C0",
    "U+A7C1", "U+A7C2", "U+A7C3", "U+A7C4", "U+A7C5", "U+A7C6", "U+A7C7",
    "U+A7C8", "U+A7C9", "U+A7CA", "U+A7D0", "U+A7D1", "U+A7D3", "U+A7D5",
    "U+A7D6", "U+A7D7", "U+A7D8", "U+A7D9", "U+A7F5", "U+A7F6", "U+A7F8",
    "U+A7F9", "U+A7FA", "U+AB30", "U+AB31", "U+AB32", "U+AB33", "U+AB34",
    "U+AB35", "U+AB36", "U+AB37", "U+AB38", "U+AB39", "U+AB3A", "U+AB3B",
    "U+AB3C", "U+AB3D", "U+AB3E", "U+AB3F", "U+AB40", "U+AB41", "U+AB42",
    "U+AB43", "U+AB44", "U+AB45", "U+AB46", "U+AB47", "U+AB48", "U+AB49",
    "U+AB4A", "U+AB4B", "U+AB4C", "U+AB4D", "U+AB4E", "U+AB4F", "U+AB50",
    "U+AB51", "U+AB52", "U+AB53", "U+AB54", "U+AB55", "U+AB56", "U+AB57",
    "U+AB58", "U+AB59", "U+AB5A", "U+AB5C", "U+AB5D", "U+AB5E", "U+AB5F",
    "U+AB60", "U+AB61", "U+AB62", "U+AB63", "U+AB64", "U+AB65", "U+AB66",
    "U+AB67", "U+AB68", "U+AB70", "U+AB71", "U+AB72", "U+AB73", "U+AB74",
    "U+AB75", "U+AB76", "U+AB77", "U+AB78", "U+AB79", "U+AB7A", "U+AB7B",
    "U+AB7C", "U+AB7D", "U+AB7E", "U+AB7F", "U+AB80", "U+AB81", "U+AB82",
    "U+AB83", "U+AB84", "U+AB85", "U+AB86", "U+AB87", "U+AB88", "U+AB89",
    "U+AB8A", "U+AB8B", "U+AB8C", "U+AB8D", "U+AB8E", "U+AB8F", "U+AB90",
    "U+AB91", "U+AB92", "U+AB93", "U+AB94", "U+AB95", "U+AB96", "U+AB97",
    "U+AB98", "U+AB99", "U+AB9A", "U+AB9B", "U+AB9C", "U+AB9D", "U+AB9E",
    "U+AB9F", "U+ABA0", "U+ABA1", "U+ABA2", "U+ABA3", "U+ABA4", "U+ABA5",
    "U+ABA6", "U+ABA7", "U+ABA8", "U+ABA9", "U+ABAA", "U+ABAB", "U+ABAC",
    "U+ABAD", "U+ABAE", "U+ABAF", "U+ABB0", "U+ABB1", "U+ABB2", "U+ABB3",
    "U+ABB4", "U+ABB5", "U+ABB6", "U+ABB7", "U+ABB8", "U+ABB9", "U+ABBA",
    "U+ABBB", "U+ABBC", "U+ABBD", "U+ABBE", "U+ABBF", "U+FB00", "U+FB01",
    "U+FB02", "U+FB03", "U+FB04", "U+FB05", "U+FB06", "U+FB13", "U+FB14",
    "U+FB15", "U+FB16", "U+FB17", "U+FF21", "U+FF22", "U+FF23", "U+FF24",
    "U+FF25", "U+FF26", "U+FF27", "U+FF28", "U+FF29", "U+FF2A", "U+FF2B",
    "U+FF2C", "U+FF2D", "U+FF2E", "U+FF2F", "U+FF30", "U+FF31", "U+FF32",
    "U+FF33", "U+FF34", "U+FF35", "U+FF36", "U+FF37", "U+FF38", "U+FF39",
    "U+FF3A", "U+FF41", "U+FF42", "U+FF43", "U+FF44", "U+FF45", "U+FF46",
    "U+FF47", "U+FF48", "U+FF49", "U+FF4A", "U+FF4B", "U+FF4C", "U+FF4D",
    "U+FF4E", "U+FF4F", "U+FF50", "U+FF51", "U+FF52", "U+FF53", "U+FF54",
    "U+FF55", "U+FF56", "U+FF57", "U+FF58", "U+FF59", "U+FF5A", "U+10400",
    "U+10401", "U+10402", "U+10403", "U+10404", "U+10405", "U+10406",
    "U+10407", "U+10408", "U+10409", "U+1040A", "U+1040B", "U+1040C",
    "U+1040D", "U+1040E", "U+1040F", "U+10410", "U+10411", "U+10412",
    "U+10413", "U+10414", "U+10415", "U+10416", "U+10417", "U+10418",
    "U+10419", "U+1041A", "U+1041B", "U+1041C", "U+1041D", "U+1041E",
    "U+1041F", "U+10420", "U+10421", "U+10422", "U+10423", "U+10424",
    "U+10425", "U+10426", "U+10427", "U+10428", "U+10429", "U+1042A",
    "U+1042B", "U+1042C", "U+1042D", "U+1042E", "U+1042F", "U+10430",
    "U+10431", "U+10432", "U+10433", "U+10434", "U+10435", "U+10436",
    "U+10437", "U+10438", "U+10439", "U+1043A", "U+1043B", "U+1043C",
    "U+1043D", "U+1043E", "U+1043F", "U+10440", "U+10441", "U+10442",
    "U+10443", "U+10444", "U+10445", "U+10446", "U+10447", "U+10448",
    "U+10449", "U+1044A", "U+1044B", "U+1044C", "U+1044D", "U+1044E",
    "U+1044F", "U+104B0", "U+104B1", "U+104B2", "U+104B3", "U+104B4",
    "U+104B5", "U+104B6", "U+104B7", "U+104B8", "U+104B9", "U+104BA",
    "U+104BB", "U+104BC", "U+104BD", "U+104BE", "U+104BF", "U+104C0",
    "U+104C1", "U+104C2", "U+104C3", "U+104C4", "U+104C5", "U+104C6",
    "U+104C7", "U+104C8", "U+104C9", "U+104CA", "U+104CB", "U+104CC",
    "U+104CD", "U+104CE", "U+104CF", "U+104D0", "U+104D1", "U+104D2",
    "U+104D3", "U+104D8", "U+104D9", "U+104DA", "U+104DB", "U+104DC",
    "U+104DD", "U+104DE", "U+104DF", "U+104E0", "U+104E1", "U+104E2",
    "U+104E3", "U+104E4", "U+104E5", "U+104E6", "U+104E7", "U+104E8",
    "U+104E9", "U+104EA", "U+104EB", "U+104EC", "U+104ED", "U+104EE",
    "U+104EF", "U+104F0", "U+104F1", "U+104F2", "U+104F3", "U+104F4",
    "U+104F5", "U+104F6", "U+104F7", "U+104F8", "U+104F9", "U+104FA",
    "U+104FB", "U+10570", "U+10571", "U+10572", "U+10573", "U+10574",
    "U+10575", "U+10576", "U+10577", "U+10578", "U+10579", "U+1057A",
    "U+1057C", "U+1057D", "U+1057E", "U+1057F", "U+10580", "U+10581",
    "U+10582", "U+10583", "U+10584", "U+10585", "U+10586", "U+10587",
    "U+10588", "U+10589", "U+1058A", "U+1058C", "U+1058D", "U+1058E",
    "U+1058F", "U+10590", "U+10591", "U+10592", "U+10594", "U+10595",
    "U+10597", "U+10598", "U+10599", "U+1059A", "U+1059B", "U+1059C",
    "U+1059D", "U+1059E", "U+1059F", "U+105A0", "U+105A1", "U+105A3",
    "U+105A4", "U+105A5", "U+105A6", "U+105A7", "U+105A8", "U+105A9",
    "U+105AA", "U+105AB", "U+105AC", "U+105AD", "U+105AE", "U+105AF",
    "U+105B0", "U+105B1", "U+105B3", "U+105B4", "U+105B5", "U+105B6",
    "U+105B7", "U+105B8", "U+105B9", "U+105BB", "U+105BC", "U+10780",
    "U+10783", "U+10784", "U+10785", "U+10787", "U+10788", "U+10789",
    "U+1078A", "U+1078B", "U+1078C", "U+1078D", "U+1078E", "U+1078F",
    "U+10790", "U+10791", "U+10792", "U+10793", "U+10794", "U+10795",
    "U+10796", "U+10797", "U+10798", "U+10799", "U+1079A", "U+1079B",
    "U+1079C", "U+1079D", "U+1079E", "U+1079F", "U+107A0", "U+107A1",
    "U+107A2", "U+107A3", "U+107A4", "U+107A5", "U+107A6", "U+107A7",
    "U+107A8", "U+107A9", "U+107AA", "U+107AB", "U+107AC", "U+107AD",
    "U+107AE", "U+107AF", "U+107B0", "U+107B2", "U+107B3", "U+107B4",
    "U+107B5", "U+107B6", "U+107B7", "U+107B8", "U+107B9", "U+107BA",
    "U+10C80", "U+10C81", "U+10C82", "U+10C83", "U+10C84", "U+10C85",
    "U+10C86", "U+10C87", "U+10C88", "U+10C89", "U+10C8A", "U+10C8B",
    "U+10C8C", "U+10C8D", "U+10C8E", "U+10C8F", "U+10C90", "U+10C91",
    "U+10C92", "U+10C93", "U+10C94", "U+10C95", "U+10C96", "U+10C97",
    "U+10C98", "U+10C99", "U+10C9A", "U+10C9B", "U+10C9C", "U+10C9D",
    "U+10C9E", "U+10C9F", "U+10CA0", "U+10CA1", "U+10CA2", "U+10CA3",
    "U+10CA4", "U+10CA5", "U+10CA6", "U+10CA7", "U+10CA8", "U+10CA9",
    "U+10CAA", "U+10CAB", "U+10CAC", "U+10CAD", "U+10CAE", "U+10CAF",
    "U+10CB0", "U+10CB1", "U+10CB2", "U+10CC0", "U+10CC1", "U+10CC2",
    "U+10CC3", "U+10CC4", "U+10CC5", "U+10CC6", "U+10CC7", "U+10CC8",
    "U+10CC9", "U+10CCA", "U+10CCB", "U+10CCC", "U+10CCD", "U+10CCE",
    "U+10CCF", "U+10CD0", "U+10CD1", "U+10CD2", "U+10CD3", "U+10CD4",
    "U+10CD5", "U+10CD6", "U+10CD7", "U+10CD8", "U+10CD9", "U+10CDA",
    "U+10CDB", "U+10CDC", "U+10CDD", "U+10CDE", "U+10CDF", "U+10CE0",
    "U+10CE1", "U+10CE2", "U+10CE3", "U+10CE4", "U+10CE5", "U+10CE6",
    "U+10CE7", "U+10CE8", "U+10CE9", "U+10CEA", "U+10CEB", "U+10CEC",
    "U+10CED", "U+10CEE", "U+10CEF", "U+10CF0", "U+10CF1", "U+10CF2",
    "U+118A0", "U+118A1", "U+118A2", "U+118A3", "U+118A4", "U+118A5",
    "U+118A6", "U+118A7", "U+118A8", "U+118A9", "U+118AA", "U+118AB",
    "U+118AC", "U+118AD", "U+118AE", "U+118AF", "U+118B0", "U+118B1",
    "U+118B2", "U+118B3", "U+118B4", "U+118B5", "U+118B6", "U+118B7",
    "U+118B8", "U+118B9", "U+118BA", "U+118BB", "U+118BC", "U+118BD",
    "U+118BE", "U+118BF", "U+118C0", "U+118C1", "U+118C2", "U+118C3",
    "U+118C4", "U+118C5", "U+118C6", "U+118C7", "U+118C8", "U+118C9",
    "U+118CA", "U+118CB", "U+118CC", "U+118CD", "U+118CE", "U+118CF",
    "U+118D0", "U+118D1", "U+118D2", "U+118D3", "U+118D4", "U+118D5",
    "U+118D6", "U+118D7", "U+118D8", "U+118D9", "U+118DA", "U+118DB",
    "U+118DC", "U+118DD", "U+118DE", "U+118DF", "U+16E40", "U+16E41",
    "U+16E42", "U+16E43", "U+16E44", "U+16E45", "U+16E46", "U+16E47",
    "U+16E48", "U+16E49", "U+16E4A", "U+16E4B", "U+16E4C", "U+16E4D",
    "U+16E4E", "U+16E4F", "U+16E50", "U+16E51", "U+16E52", "U+16E53",
    "U+16E54", "U+16E55", "U+16E56", "U+16E57", "U+16E58", "U+16E59",
    "U+16E5A", "U+16E5B", "U+16E5C", "U+16E5D", "U+16E5E", "U+16E5F",
    "U+16E60", "U+16E61", "U+16E62", "U+16E63", "U+16E64", "U+16E65",
    "U+16E66", "U+16E67", "U+16E68", "U+16E69", "U+16E6A", "U+16E6B",
    "U+16E6C", "U+16E6D", "U+16E6E", "U+16E6F", "U+16E70", "U+16E71",
    "U+16E72", "U+16E73", "U+16E74", "U+16E75", "U+16E76", "U+16E77",
    "U+16E78", "U+16E79", "U+16E7A", "U+16E7B", "U+16E7C", "U+16E7D",
    "U+16E7E", "U+16E7F", "U+1D400", "U+1D401", "U+1D402", "U+1D403",
    "U+1D404", "U+1D405", "U+1D406", "U+1D407", "U+1D408", "U+1D409",
    "U+1D40A", "U+1D40B", "U+1D40C", "U+1D40D", "U+1D40E", "U+1D40F",
    "U+1D410", "U+1D411", "U+1D412", "U+1D413", "U+1D414", "U+1D415",
    "U+1D416", "U+1D417", "U+1D418", "U+1D419", "U+1D41A", "U+1D41B",
    "U+1D41C", "U+1D41D", "U+1D41E", "U+1D41F", "U+1D420", "U+1D421",
    "U+1D422", "U+1D423", "U+1D424", "U+1D425", "U+1D426", "U+1D427",
    "U+1D428", "U+1D429", "U+1D42A", "U+1D42B", "U+1D42C", "U+1D42D",
    "U+1D42E", "U+1D42F", "U+1D430", "U+1D431", "U+1D432", "U+1D433",
    "U+1D434", "U+1D435", "U+1D436", "U+1D437", "U+1D438", "U+1D439",
    "U+1D43A", "U+1D43B", "U+1D43C", "U+1D43D", "U+1D43E", "U+1D43F",
    "U+1D440", "U+1D441", "U+1D442", "U+1D443", "U+1D444", "U+1D445",
    "U+1D446", "U+1D447", "U+1D448", "U+1D449", "U+1D44A", "U+1D44B",
    "U+1D44C", "U+1D44D", "U+1D44E", "U+1D44F", "U+1D450", "U+1D451",
    "U+1D452", "U+1D453", "U+1D454", "U+1D456", "U+1D457", "U+1D458",
    "U+1D459", "U+1D45A", "U+1D45B", "U+1D45C", "U+1D45D", "U+1D45E",
    "U+1D45F", "U+1D460", "U+1D461", "U+1D462", "U+1D463", "U+1D464",
    "U+1D465", "U+1D466", "U+1D467", "U+1D468", "U+1D469", "U+1D46A",
    "U+1D46B", "U+1D46C", "U+1D46D", "U+1D46E", "U+1D46F", "U+1D470",
    "U+1D471", "U+1D472", "U+1D473", "U+1D474", "U+1D475", "U+1D476",
    "U+1D477", "U+1D478", "U+1D479", "U+1D47A", "U+1D47B", "U+1D47C",
    "U+1D47D", "U+1D47E", "U+1D47F", "U+1D480", "U+1D481", "U+1D482",
    "U+1D483", "U+1D484", "U+1D485", "U+1D486", "U+1D487", "U+1D488",
    "U+1D489", "U+1D48A", "U+1D48B", "U+1D48C", "U+1D48D", "U+1D48E",
    "U+1D48F", "U+1D490", "U+1D491", "U+1D492", "U+1D493", "U+1D494",
    "U+1D495", "U+1D496", "U+1D497", "U+1D498", "U+1D499", "U+1D49A",
    "U+1D49B", "U+1D49C", "U+1D49E", "U+1D49F", "U+1D4A2", "U+1D4A5",
    "U+1D4A6", "U+1D4A9", "U+1D4AA", "U+1D4AB", "U+1D4AC", "U+1D4AE",
    "U+1D4AF", "U+1D4B0", "U+1D4B1", "U+1D4B2", "U+1D4B3", "U+1D4B4",
    "U+1D4B5", "U+1D4B6", "U+1D4B7", "U+1D4B8", "U+1D4B9", "U+1D4BB",
    "U+1D4BD", "U+1D4BE", "U+1D4BF", "U+1D4C0", "U+1D4C1", "U+1D4C2",
    "U+1D4C3", "U+1D4C5", "U+1D4C6", "U+1D4C7", "U+1D4C8", "U+1D4C9",
    "U+1D4CA", "U+1D4CB", "U+1D4CC", "U+1D4CD", "U+1D4CE", "U+1D4CF",
    "U+1D4D0", "U+1D4D1", "U+1D4D2", "U+1D4D3", "U+1D4D4", "U+1D4D5",
    "U+1D4D6", "U+1D4D7", "U+1D4D8", "U+1D4D9", "U+1D4DA", "U+1D4DB",
    "U+1D4DC", "U+1D4DD", "U+1D4DE", "U+1D4DF", "U+1D4E0", "U+1D4E1",
    "U+1D4E2", "U+1D4E3", "U+1D4E4", "U+1D4E5", "U+1D4E6", "U+1D4E7",
    "U+1D4E8", "U+1D4E9", "U+1D4EA", "U+1D4EB", "U+1D4EC", "U+1D4ED",
    "U+1D4EE", "U+1D4EF", "U+1D4F0", "U+1D4F1", "U+1D4F2", "U+1D4F3",
    "U+1D4F4", "U+1D4F5", "U+1D4F6", "U+1D4F7", "U+1D4F8", "U+1D4F9",
    "U+1D4FA", "U+1D4FB", "U+1D4FC", "U+1D4FD", "U+1D4FE", "U+1D4FF",
    "U+1D500", "U+1D501", "U+1D502", "U+1D503", "U+1D504", "U+1D505",
    "U+1D507", "U+1D508", "U+1D509", "U+1D50A", "U+1D50D", "U+1D50E",
    "U+1D50F", "U+1D510", "U+1D511", "U+1D512", "U+1D513", "U+1D514",
    "U+1D516", "U+1D517", "U+1D518", "U+1D519", "U+1D51A", "U+1D51B",
    "U+1D51C", "U+1D51E", "U+1D51F", "U+1D520", "U+1D521", "U+1D522",
    "U+1D523", "U+1D524", "U+1D525", "U+1D526", "U+1D527", "U+1D528",
    "U+1D529", "U+1D52A", "U+1D52B", "U+1D52C", "U+1D52D", "U+1D52E",
    "U+1D52F", "U+1D530", "U+1D531", "U+1D532", "U+1D533", "U+1D534",
    "U+1D535", "U+1D536", "U+1D537", "U+1D538", "U+1D539", "U+1D53B",
    "U+1D53C", "U+1D53D", "U+1D53E", "U+1D540", "U+1D541", "U+1D542",
    "U+1D543", "U+1D544", "U+1D546", "U+1D54A", "U+1D54B", "U+1D54C",
    "U+1D54D", "U+1D54E", "U+1D54F", "U+1D550", "U+1D552", "U+1D553",
    "U+1D554", "U+1D555", "U+1D556", "U+1D557", "U+1D558", "U+1D559",
    "U+1D55A", "U+1D55B", "U+1D55C", "U+1D55D", "U+1D55E", "U+1D55F",
    "U+1D560", "U+1D561", "U+1D562", "U+1D563", "U+1D564", "U+1D565",
    "U+1D566", "U+1D567", "U+1D568", "U+1D569", "U+1D56A", "U+1D56B",
    "U+1D56C", "U+1D56D", "U+1D56E", "U+1D56F", "U+1D570", "U+1D571",
    "U+1D572", "U+1D573", "U+1D574", "U+1D575", "U+1D576", "U+1D577",
    "U+1D578", "U+1D579", "U+1D57A", "U+1D57B", "U+1D57C", "U+1D57D",
    "U+1D57E", "U+1D57F", "U+1D580", "U+1D581", "U+1D582", "U+1D583",
    "U+1D584", "U+1D585", "U+1D586", "U+1D587", "U+1D588", "U+1D589",
    "U+1D58A", "U+1D58B", "U+1D58C", "U+1D58D", "U+1D58E", "U+1D58F",
    "U+1D590", "U+1D591", "U+1D592", "U+1D593", "U+1D594", "U+1D595",
    "U+1D596", "U+1D597", "U+1D598", "U+1D599", "U+1D59A", "U+1D59B",
    "U+1D59C", "U+1D59D", "U+1D59E", "U+1D59F", "U+1D5A0", "U+1D5A1",
    "U+1D5A2", "U+1D5A3", "U+1D5A4", "U+1D5A5", "U+1D5A6", "U+1D5A7",
    "U+1D5A8", "U+1D5A9", "U+1D5AA", "U+1D5AB", "U+1D5AC", "U+1D5AD",
    "U+1D5AE", "U+1D5AF", "U+1D5B0", "U+1D5B1", "U+1D5B2", "U+1D5B3",
    "U+1D5B4", "U+1D5B5", "U+1D5B6", "U+1D5B7", "U+1D5B8", "U+1D5B9",
    "U+1D5BA", "U+1D5BB", "U+1D5BC", "U+1D5BD", "U+1D5BE", "U+1D5BF",
    "U+1D5C0", "U+1D5C1", "U+1D5C2", "U+1D5C3", "U+1D5C4", "U+1D5C5",
    "U+1D5C6", "U+1D5C7", "U+1D5C8", "U+1D5C9", "U+1D5CA", "U+1D5CB",
    "U+1D5CC", "U+1D5CD", "U+1D5CE", "U+1D5CF", "U+1D5D0", "U+1D5D1",
    "U+1D5D2", "U+1D5D3", "U+1D5D4", "U+1D5D5", "U+1D5D6", "U+1D5D7",
    "U+1D5D8", "U+1D5D9", "U+1D5DA", "U+1D5DB", "U+1D5DC", "U+1D5DD",
    "U+1D5DE", "U+1D5DF", "U+1D5E0", "U+1D5E1", "U+1D5E2", "U+1D5E3",
    "U+1D5E4", "U+1D5E5", "U+1D5E6", "U+1D5E7", "U+1D5E8", "U+1D5E9",
    "U+1D5EA", "U+1D5EB", "U+1D5EC", "U+1D5ED", "U+1D5EE", "U+1D5EF",
    "U+1D5F0", "U+1D5F1", "U+1D5F2", "U+1D5F3", "U+1D5F4", "U+1D5F5",
    "U+1D5F6", "U+1D5F7", "U+1D5F8", "U+1D5F9", "U+1D5FA", "U+1D5FB",
    "U+1D5FC", "U+1D5FD", "U+1D5FE", "U+1D5FF", "U+1D600", "U+1D601",
    "U+1D602", "U+1D603", "U+1D604", "U+1D605", "U+1D606", "U+1D607",
    "U+1D608", "U+1D609", "U+1D60A", "U+1D60B", "U+1D60C", "U+1D60D",
    "U+1D60E", "U+1D60F", "U+1D610", "U+1D611", "U+1D612", "U+1D613",
    "U+1D614", "U+1D615", "U+1D616", "U+1D617", "U+1D618", "U+1D619",
    "U+1D61A", "U+1D61B", "U+1D61C", "U+1D61D", "U+1D61E", "U+1D61F",
    "U+1D620", "U+1D621", "U+1D622", "U+1D623", "U+1D624", "U+1D625",
    "U+1D626", "U+1D627", "U+1D628", "U+1D629", "U+1D62A", "U+1D62B",
    "U+1D62C", "U+1D62D", "U+1D62E", "U+1D62F", "U+1D630", "U+1D631",
    "U+1D632", "U+1D633", "U+1D634", "U+1D635", "U+1D636", "U+1D637",
    "U+1D638", "U+1D639", "U+1D63A", "U+1D63B", "U+1D63C", "U+1D63D",
    "U+1D63E", "U+1D63F", "U+1D640", "U+1D641", "U+1D642", "U+1D643",
    "U+1D644", "U+1D645", "U+1D646", "U+1D647", "U+1D648", "U+1D649",
    "U+1D64A", "U+1D64B", "U+1D64C", "U+1D64D", "U+1D64E", "U+1D64F",
    "U+1D650", "U+1D651", "U+1D652", "U+1D653", "U+1D654", "U+1D655",
    "U+1D656", "U+1D657", "U+1D658", "U+1D659", "U+1D65A", "U+1D65B",
    "U+1D65C", "U+1D65D", "U+1D65E", "U+1D65F", "U+1D660", "U+1D661",
    "U+1D662", "U+1D663", "U+1D664", "U+1D665", "U+1D666", "U+1D667",
    "U+1D668", "U+1D669", "U+1D66A", "U+1D66B", "U+1D66C", "U+1D66D",
    "U+1D66E", "U+1D66F", "U+1D670", "U+1D671", "U+1D672", "U+1D673",
    "U+1D674", "U+1D675", "U+1D676", "U+1D677", "U+1D678", "U+1D679",
    "U+1D67A", "U+1D67B", "U+1D67C", "U+1D67D", "U+1D67E", "U+1D67F",
    "U+1D680", "U+1D681", "U+1D682", "U+1D683", "U+1D684", "U+1D685",
    "U+1D686", "U+1D687", "U+1D688", "U+1D689", "U+1D68A", "U+1D68B",
    "U+1D68C", "U+1D68D", "U+1D68E", "U+1D68F", "U+1D690", "U+1D691",
    "U+1D692", "U+1D693", "U+1D694", "U+1D695", "U+1D696", "U+1D697",
    "U+1D698", "U+1D699", "U+1D69A", "U+1D69B", "U+1D69C", "U+1D69D",
    "U+1D69E", "U+1D69F", "U+1D6A0", "U+1D6A1", "U+1D6A2", "U+1D6A3",
    "U+1D6A4", "U+1D6A5", "U+1D6A8", "U+1D6A9", "U+1D6AA", "U+1D6AB",
    "U+1D6AC", "U+1D6AD", "U+1D6AE", "U+1D6AF", "U+1D6B0", "U+1D6B1",
    "U+1D6B2", "U+1D6B3", "U+1D6B4", "U+1D6B5", "U+1D6B6", "U+1D6B7",
    "U+1D6B8", "U+1D6B9", "U+1D6BA", "U+1D6BB", "U+1D6BC", "U+1D6BD",
    "U+1D6BE", "U+1D6BF", "U+1D6C0", "U+1D6C2", "U+1D6C3", "U+1D6C4",
    "U+1D6C5", "U+1D6C6", "U+1D6C7", "U+1D6C8", "U+1D6C9", "U+1D6CA",
    "U+1D6CB", "U+1D6CC", "U+1D6CD", "U+1D6CE", "U+1D6CF", "U+1D6D0",
    "U+1D6D1", "U+1D6D2", "U+1D6D3", "U+1D6D4", "U+1D6D5", "U+1D6D6",
    "U+1D6D7", "U+1D6D8", "U+1D6D9", "U+1D6DA", "U+1D6DC", "U+1D6DD",
    "U+1D6DE", "U+1D6DF", "U+1D6E0", "U+1D6E1", "U+1D6E2", "U+1D6E3",
    "U+1D6E4", "U+1D6E5", "U+1D6E6", "U+1D6E7", "U+1D6E8", "U+1D6E9",
    "U+1D6EA", "U+1D6EB", "U+1D6EC", "U+1D6ED", "U+1D6EE", "U+1D6EF",
    "U+1D6F0", "U+1D6F1", "U+1D6F2", "U+1D6F3", "U+1D6F4", "U+1D6F5",
    "U+1D6F6", "U+1D6F7", "U+1D6F8", "U+1D6F9", "U+1D6FA", "U+1D6FC",
    "U+1D6FD", "U+1D6FE", "U+1D6FF", "U+1D700", "U+1D701", "U+1D702",
    "U+1D703", "U+1D704", "U+1D705", "U+1D706", "U+1D707", "U+1D708",
    "U+1D709", "U+1D70A", "U+1D70B", "U+1D70C", "U+1D70D", "U+1D70E",
    "U+1D70F", "U+1D710", "U+1D711", "U+1D712", "U+1D713", "U+1D714",
    "U+1D716", "U+1D717", "U+1D718", "U+1D719", "U+1D71A", "U+1D71B",
    "U+1D71C", "U+1D71D", "U+1D71E", "U+1D71F", "U+1D720", "U+1D721",
    "U+1D722", "U+1D723", "U+1D724", "U+1D725", "U+1D726", "U+1D727",
    "U+1D728", "U+1D729", "U+1D72A", "U+1D72B", "U+1D72C", "U+1D72D",
    "U+1D72E", "U+1D72F", "U+1D730", "U+1D731", "U+1D732", "U+1D733",
    "U+1D734", "U+1D736", "U+1D737", "U+1D738", "U+1D739", "U+1D73A",
    "U+1D73B", "U+1D73C", "U+1D73D", "U+1D73E", "U+1D73F", "U+1D740",
    "U+1D741", "U+1D742", "U+1D743", "U+1D744", "U+1D745", "U+1D746",
    "U+1D747", "U+1D748", "U+1D749", "U+1D74A", "U+1D74B", "U+1D74C",
    "U+1D74D", "U+1D74E", "U+1D750", "U+1D751", "U+1D752", "U+1D753",
    "U+1D754", "U+1D755", "U+1D756", "U+1D757", "U+1D758", "U+1D759",
    "U+1D75A", "U+1D75B", "U+1D75C", "U+1D75D", "U+1D75E", "U+1D75F",
    "U+1D760", "U+1D761", "U+1D762", "U+1D763", "U+1D764", "U+1D765",
    "U+1D766", "U+1D767", "U+1D768", "U+1D769", "U+1D76A", "U+1D76B",
    "U+1D76C", "U+1D76D", "U+1D76E", "U+1D770", "U+1D771", "U+1D772",
    "U+1D773", "U+1D774", "U+1D775", "U+1D776", "U+1D777", "U+1D778",
    "U+1D779", "U+1D77A", "U+1D77B", "U+1D77C", "U+1D77D", "U+1D77E",
    "U+1D77F", "U+1D780", "U+1D781", "U+1D782", "U+1D783", "U+1D784",
    "U+1D785", "U+1D786", "U+1D787", "U+1D788", "U+1D78A", "U+1D78B",
    "U+1D78C", "U+1D78D", "U+1D78E", "U+1D78F", "U+1D790", "U+1D791",
    "U+1D792", "U+1D793", "U+1D794", "U+1D795", "U+1D796", "U+1D797",
    "U+1D798", "U+1D799", "U+1D79A", "U+1D79B", "U+1D79C", "U+1D79D",
    "U+1D79E", "U+1D79F", "U+1D7A0", "U+1D7A1", "U+1D7A2", "U+1D7A3",
    "U+1D7A4", "U+1D7A5", "U+1D7A6", "U+1D7A7", "U+1D7A8", "U+1D7AA",
    "U+1D7AB", "U+1D7AC", "U+1D7AD", "U+1D7AE", "U+1D7AF", "U+1D7B0",
    "U+1D7B1", "U+1D7B2", "U+1D7B3", "U+1D7B4", "U+1D7B5", "U+1D7B6",
    "U+1D7B7", "U+1D7B8", "U+1D7B9", "U+1D7BA", "U+1D7BB", "U+1D7BC",
    "U+1D7BD", "U+1D7BE", "U+1D7BF", "U+1D7C0", "U+1D7C1", "U+1D7C2",
    "U+1D7C4", "U+1D7C5", "U+1D7C6", "U+1D7C7", "U+1D7C8", "U+1D7C9",
    "U+1D7CA", "U+1D7CB", "U+1DF00", "U+1DF01", "U+1DF02", "U+1DF03",
    "U+1DF04", "U+1DF05", "U+1DF06", "U+1DF07", "U+1DF08", "U+1DF09",
    "U+1DF0B", "U+1DF0C", "U+1DF0D", "U+1DF0E", "U+1DF0F", "U+1DF10",
    "U+1DF11", "U+1DF12", "U+1DF13", "U+1DF14", "U+1DF15", "U+1DF16",
    "U+1DF17", "U+1DF18", "U+1DF19", "U+1DF1A", "U+1DF1B", "U+1DF1C",
    "U+1DF1D", "U+1DF1E", "U+1E900", "U+1E901", "U+1E902", "U+1E903",
    "U+1E904", "U+1E905", "U+1E906", "U+1E907", "U+1E908", "U+1E909",
    "U+1E90A", "U+1E90B", "U+1E90C", "U+1E90D", "U+1E90E", "U+1E90F",
    "U+1E910", "U+1E911", "U+1E912", "U+1E913", "U+1E914", "U+1E915",
    "U+1E916", "U+1E917", "U+1E918", "U+1E919", "U+1E91A", "U+1E91B",
    "U+1E91C", "U+1E91D", "U+1E91E", "U+1E91F", "U+1E920", "U+1E921",
    "U+1E922", "U+1E923", "U+1E924", "U+1E925", "U+1E926", "U+1E927",
    "U+1E928", "U+1E929", "U+1E92A", "U+1E92B", "U+1E92C", "U+1E92D",
    "U+1E92E", "U+1E92F", "U+1E930", "U+1E931", "U+1E932", "U+1E933",
    "U+1E934", "U+1E935", "U+1E936", "U+1E937", "U+1E938", "U+1E939",
    "U+1E93A", "U+1E93B", "U+1E93C", "U+1E93D", "U+1E93E", "U+1E93F",
    "U+1E940", "U+1E941", "U+1E942", "U+1E943", "U+1F130", "U+1F131",
    "U+1F132", "U+1F133", "U+1F134", "U+1F135", "U+1F136", "U+1F137",
    "U+1F138", "U+1F139", "U+1F13A", "U+1F13B", "U+1F13C", "U+1F13D",
    "U+1F13E", "U+1F13F", "U+1F140", "U+1F141", "U+1F142", "U+1F143",
    "U+1F144", "U+1F145", "U+1F146", "U+1F147", "U+1F148", "U+1F149",
    "U+1F150", "U+1F151", "U+1F152", "U+1F153", "U+1F154", "U+1F155",
    "U+1F156", "U+1F157", "U+1F158", "U+1F159", "U+1F15A", "U+1F15B",
    "U+1F15C", "U+1F15D", "U+1F15E", "U+1F15F", "U+1F160", "U+1F161",
    "U+1F162", "U+1F163", "U+1F164", "U+1F165", "U+1F166", "U+1F167",
    "U+1F168", "U+1F169", "U+1F170", "U+1F171", "U+1F172", "U+1F173",
    "U+1F174", "U+1F175", "U+1F176", "U+1F177", "U+1F178", "U+1F179",
    "U+1F17A", "U+1F17B", "U+1F17C", "U+1F17D", "U+1F17E", "U+1F17F",
    "U+1F180", "U+1F181", "U+1F182", "U+1F183", "U+1F184", "U+1F185",
    "U+1F186", "U+1F187", "U+1F188", "U+1F189"
   }

\* the characters with the property Case_Ignorable
CASE_IGNORABLE ==
   {
    "'", ".", ":", "^", "U+0060", "U+00A8", "U+00AD", "U+00AF", "U+00B4",
    "U+00B7", "U+00B8", "U+02B0", "U+02B1", "U+02B2", "U+02B3", "U+02B4",
    "U+02B5", "U+02B6", "U+02B7", "U+02B8", "U+02B9", "U+02BA", "U+02BB",
    "U+02BC", "U+02BD", "U+02BE", "U+02BF", "U+02C0", "U+02C1", "U+02C2",
    "U+02C3", "U+02C4", "U+02C5", "U+02C6", "U+02C7", "U+02C8", "U+02C9",
    "U+02CA", "U+02CB", "U+02CC", "U+02CD", "U+02CE", "U+02CF", "U+02D0",
    "U+02D1", "U+02D2", "U+02D3", "U+02D4", "U+02D5", "U+02D6", "U+02D7",
    "U+02D8", "U+02D9", "U+02DA", "U+02DB", "U+02DC", "U+02DD", "U+02DE",
    "U+02DF", "U+02E0", "U+02E1", "U+02E2", "U+02E3", "U+02E4", "U+02E5",
    "U+02E6", "U+02E7", "U+02E8", "U+02E9", "U+02EA", "U+02EB", "U+02EC",
    "U+02ED", "U+02EE", "U+02EF", "U+02F0", "U+02F1", "U+02F2", "U+02F3",
    "U+02F4", "U+02F5", "U+02F6", "U+02F7", "U+02F8", "U+02F9", "U+02FA",
    "U+02FB", "U+02FC", "U+02FD", "U+02FE", "U+02FF", "U+0300", "U+0301",
    "U+0302", "U+0303", "U+0304", "U+0305", "U+0306", "U+0307", "U+0308",
    "U+0309", "U+030A", "U+030B", "U+030C", "U+030D", "U+030E", "U+030F",
    "U+0310", "U+0311", "U+0312", "U+0313", "U+0314", "U+0315", "U+0316",
    "U+0317", "U+0318", "U+0319", "U+031A", "U+031B", "U+031C", "U+031D",
    "U+031E", "U+031F", "U+0320", "U+0321", "U+0322", "U+0323", "U+0324",
    "U+0325", "U+0326", "U+0327", "U+0328", "U+0329", "U+032A", "U+032B",
    "U+032C", "U+032D", "U+032E", "U+032F", "U+0330", "U+0331", "U+0332",
    "U+0333", "U+0334", "U+0335", "U+0336", "U+0337", "U+0338", "U+0339",
    "U+033A", "U+033B", "U+033C", "U+033D", "U+033E", "U+033F", "U+0340",
    "U+0341", "U+0342", "U+0343", "U+0344", "U+0345", "U+0346", "U+0347",
    "U+0348", "U+0349", "U+034A", "U+034B", "U+034C", "U+034D", "U+034E",
    "U+034F", "U+0350", "U+0351", "U+0352", "U+0353", "U+0354", "U+0355",
    "U+0356", "U+0357", "U+0358", "U+0359", "U+035A", "U+035B", "U+035C",
    "U+035D", "U+035E", "U+035F", "U+0360", "U+0361", "U+0362", "U+0363",
    "U+0364", "U+0365", "U+0366", "U+0367", "U+0368", "U+0369", "U+036A",
    "U+036B", "U+036C", "U+036D", "U+036E", "U+036F", "U+0374", "U+0375",
    "U+037A", "U+0384", "U+0385", "U+0387", "U+0483", "U+0484", "U+0485",
    "U+0486", "U+0487", "U+0488", "U+0489", "U+0559", "U+055F", "U+0591",
    "U+0592", "U+0593", "U+0594", "U+0595", "U+0596", "U+0597", "U+0598",
    "U+0599", "U+059A", "U+059B", "U+059C", "U+059D", "U+059E", "U+059F",
    "U+05A0", "U+05A1", "U+05A2", "U+05A3", "U+05A4", "U+05A5", "U+05A6",
    "U+05A7", "U+05A8", "U+05A9", "U+05AA", "U+05AB", "U+05AC", "U+05AD",
    "U+05AE", "U+05AF", "U+05B0", "U+05B1", "U+05B2", "U+05B3", "U+05B4",
    "U+05B5", "U+05B6", "U+05B7", "U+05B8", "U+05B9", "U+05BA", "U+05BB",
    "U+05BC", "U+05BD", "U+05BF", "U+05C1", "U+05C2", "U+05C4", "U+05C5",
    "U+05C7", "U+05F4", "U+0600", "U+0601", "U+0602", "U+0603", "U+0604",
    "U+0605", "U+0610", "U+0611", "U+0612", "U+0613", "U+0614", "U+0615",
    "U+0616", "U+0617", "U+0618", "U+0619", "U+061A", "U+061C", "U+0640",
    "U+064B", "U+064C", "U+064D", "U+064E", "U+064F", "U+0650", "U+0651",
    "U+0652", "U+0653", "U+0654", "U+0655", "U+0656", "U+0657", "U+0658",
    "U+0659", "U+065A", "U+065B", "U+065C", "U+065D", "U+065E", "U+065F",
    "U+0670", "U+06D6", "U+06D7", "U+06D8", "U+06D9", "U+06DA", "U+06DB",
    "U+06DC", "U+06DD", "U+06DF", "U+06E0", "U+06E1", "U+06E2", "U+06E3",
    "U+06E4", "U+06E5", "U+06E6", "U+06E7", "U+06E8", "U+06EA", "U+06EB",
    "U+06EC", "U+06ED", "U+070F", "U+0711", "U+0730", "U+0731", "U+0732",
    "U+0733", "U+0734", "U+0735", "U+0736", "U+0737", "U+0738", "U+0739",
    "U+073A", "U+073B", "U+073C", "U+073D", "U+073E", "U+073F", "U+0740",
    "U+0741", "U+0742", "U+0743", "U+0744", "U+0745", "U+0746", "U+0747",
    "U+0748", "U+0749", "U+074A", "U+07A6", "U+07A7", "U+07A8", "U+07A9",
    "U+07AA", "U+07AB", "U+07AC", "U+07AD", "U+07AE", "U+07AF", "U+07B0",
    "U+07EB", "U+07EC", "U+07ED", "U+07EE", "U+07EF", "U+07F0", "U+07F1",
    "U+07F2", "U+07F3", "U+07F4", "U+07F5", "U+07FA", "U+07FD", "U+0816",
    "U+0817", "U+0818", "U+0819", "U+081A", "U+081B", "U+081C", "U+081D",
    "U+081E", "U+081F", "U+0820", "U+0821", "U+0822", "U+0823", "U+0824",
    "U+0825", "U+0826", "U+0827", "U+0828", "U+0829", "U+082A", "U+082B",
    "U+082C", "U+082D", "U+0859", "U+085A", "U+085B", "U+0888", "U+0890",
    "U+0891", "U+0898", "U+0899", "U+089A", "U+089B", "U+089C", "U+089D",
    "U+089E", "U+089F", "U+08C9", "U+08CA", "U+08CB", "U+08CC", "U+08CD",
    "U+08CE", "U+08CF", "U+08D0", "U+08D1", "U+08D2", "U+08D3", "U+08D4",
    "U+08D5", "U+08D6", "U+08D7", "U+08D8", "U+08D9", "U+08DA", "U+08DB",
    "U+08DC", "U+08DD", "U+08DE", "U+08DF", "U+08E0", "U+08E1", "U+08E2",
    "U+08E3", "U+08E4", "U+08E5", "U+08E6", "U+08E7", "U+08E8", "U+08E9",
    "U+08EA", "U+08EB", "U+08EC", "U+08ED", "U+08EE", "U+08EF", "U+08F0",
    "U+08F1", "U+08F2", "U+08F3", "U+08F4", "U+08F5", "U+08F6", "U+08F7",
    "U+08F8", "U+08F9", "U+08FA", "U+08FB", "U+08FC", "U+08FD", "U+08FE",
    "U+08FF", "U+0900", "U+0901", "U+0902", "U+093A", "U+093C", "U+0941",
    "U+0942", "U+0943", "U+0944", "U+0945", "U+0946", "U+0947", "U+0948",
    "U+094D", "U+0951", "U+0952", "U+0953", "U+0954", "U+0955", "U+0956",
    "U+0957", "U+0962", "U+0963", "U+0971", "U+0981", "U+09BC", "U+09C1",
    "U+09C2", "U+09C3", "U+09C4", "U+09CD", "U+09E2", "U+09E3", "U+09FE",
    "U+0A01", "U+0A02", "U+0A3C", "U+0A41", "U+0A42", "U+0A47", "U+0A48",
    "U+0A4B", "U+0A4C", "U+0A4D", "U+0A51", "U+0A70", "U+0A71", "U+0A75",
    "U+0A81", "U+0A82", "U+0ABC", "U+0AC1", "U+0AC2", "U+0AC3", "U+0AC4",
    "U+0AC5", "U+0AC7", "U+0AC8", "U+0ACD", "U+0AE2", "U+0AE3", "U+0AFA",
    "U+0AFB", "U+0AFC", "U+0AFD", "U+0AFE", "U+0AFF", "U+0B01", "U+0B3C",
    "U+0B3F", "U+0B41", "U+0B42", "U+0B43", "U+0B44", "U+0B4D", "U+0B55",
    "U+0B56", "U+0B62", "U+0B63", "U+0B82", "U+0BC0", "U+0BCD", "U+0C00",
    "U+0C04", "U+0C3C", "U+0C3E", "U+0C3F", "U+0C40", "U+0C46", "U+0C47",
    "U+0C48", "U+0C4A", "U+0C4B", "U+0C4C", "U+0C4D", "U+0C55", "U+0C56",
    "U+0C62", "U+0C63", "U+0C81", "U+0CBC", "U+0CBF", "U+0CC6", "U+0CCC",
    "U+0CCD", "U+0CE2", "U+0CE3", "U+0D00", "U+0D01", "U+0D3B", "U+0D3C",
    "U+0D41", "U+0D42", "U+0D43", "U+0D44", "U+0D4D", "U+0D62", "U+0D63",
    "U+0D81", "U+0DCA", "U+0DD2", "U+0DD3", "U+0DD4", "U+0DD6", "U+0E31",
    "U+0E34", "U+0E35", "U+0E36", "U+0E37", "U+0E38", "U+0E39", "U+0E3A",
    "U+0E46", "U+0E47", "U+0E48", "U+0E49", "U+0E4A", "U+0E4B", "U+0E4C",
    "U+0E4D", "U+0E4E", "U+0EB1", "U+0EB4", "U+0EB5", "U+0EB6", "U+0EB7",
    "U+0EB8", "U+0EB9", "U+0EBA", "U+0EBB", "U+0EBC", "U+0EC6", "U+0EC8",
    "U+0EC9", "U+0ECA", "U+0ECB", "U+0ECC", "U+0ECD", "U+0F18", "U+0F19",
    "U+0F35", "U+0F37", "U+0F39", "U+0F71", "U+0F72", "U+0F73", "U+0F74",
    "U+0F75", "U+0F76", "U+0F77", "U+0F78", "U+0F79", "U+0F7A", "U+0F7B",
    "U+0F7C", "U+0F7D", "U+0F7E", "U+0F80", "U+0F81", "U+0F82", "U+0F83",
    "U+0F84", "U+0F86", "U+0F87", "U+0F8D", "U+0F8E", "U+0F8F", "U+0F90",
    "U+0F91", "U+0F92", "U+0F93", "U+0F94", "U+0F95", "U+0F96", "U+0F97",
    "U+0F99", "U+0F9A", "U+0F9B", "U+0F9C", "U+0F9D", "U+0F9E", "U+0F9F",
    "U+0FA0", "U+0FA1", "U+0FA2", "U+0FA3", "U+0FA4", "U+0FA5", "U+0FA6",
    "U+0FA7", "U+0FA8", "U+0FA9", "U+0FAA", "U+0FAB", "U+0FAC", "U+0FAD",
    "U+0FAE", "U+0FAF", "U+0FB0", "U+0FB1", "U+0FB2", "U+0FB3", "U+0FB4",
    "U+0FB5", "U+0FB6", "U+0FB7", "U+0FB8", "U+0FB9", "U+0FBA", "U+0FBB",
    "U+0FBC", "U+0FC6", "U+102D", "U+102E", "U+102F", "U+1030", "U+1032",
    "U+1033", "U+1034", "U+1035", "U+1036", "U+1037", "U+1039", "U+103A",
    "U+103D", "U+103E", "U+1058", "U+1059", "U+105E", "U+105F", "U+1060",
    "U+1071", "U+1072", "U+1073", "U+1074", "U+1082", "U+1085", "U+1086",
    "U+108D", "U+109D", "U+10FC", "U+135D", "U+135E", "U+135F", "U+1712",
    "U+1713", "U+1714", "U+1732", "U+1733", "U+1752", "U+1753", "U+1772",
    "U+1773", "U+17B4", "U+17B5", "U+17B7", "U+17B8", "U+17B9", "U+17BA",
    "U+17BB", "U+17BC", "U+17BD", "U+17C6", "U+17C9", "U+17CA", "U+17CB",
    "U+17CC", "U+17CD", "U+17CE", "U+17CF", "U+17D0", "U+17D1", "U+17D2",
    "U+17D3", "U+17D7", "U+17DD", "U+180B", "U+180C", "U+180D", "U+180E",
    "U+180F", "U+1843", "U+1885", "U+1886", "U+18A9", "U+1920", "U+1921",
    "U+1922", "U+1927", "U+1928", "U+1932", "U+1939", "U+193A", "U+193B",
    "U+1A17", "U+1A18", "U+1A1B", "U+1A56", "U+1A58", "U+1A59", "U+1A5A",
    "U+1A5B", "U+1A5C", "U+1A5D", "U+1A5E", "U+1A60", "U+1A62", "U+1A65",
    "U+1A66", "U+1A67", "U+1A68", "U+1A69", "U+1A6A", "U+1A6B", "U+1A6C",
    "U+1A73", "U+1A74", "U+1A75", "U+1A76", "U+1A77", "U+1A78", "U+1A79",
    "U+1A7A", "U+1A7B", "U+1A7C", "U+1A7F", "U+1AA7", "U+1AB0", "U+1AB1",
    "U+1AB2", "U+1AB3", "U+1AB4", "U+1AB5", "U+1AB6", "U+1AB7", "U+1AB8",
    "U+1AB9", "U+1ABA", "U+1ABB", "U+1ABC", "U+1ABD", "U+1ABE", "U+1ABF",
    "U+1AC0", "U+1AC1", "U+1AC2", "U+1AC3", "U+1AC4", "U+1AC5", "U+1AC6",
    "U+1AC7", "U+1AC8", "U+1AC9", "U+1ACA", "U+1ACB", "U+1ACC", "U+1ACD",
    "U+1ACE", "U+1B00", "U+1B01", "U+1B02", "U+1B03", "U+1B34", "U+1B36",
    "U+1B37", "U+1B38", "U+1B39", "U+1B3A", "U+1B3C", "U+1B42", "U+1B6B",
    "U+1B6C", "U+1B6D", "U+1B6E", "U+1B6F", "U+1B70", "U+1B71", "U+1B72",
    "U+1B73", "U+1B80", "U+1B81", "U+1BA2", "U+1BA3", "U+1BA4", "U+1BA5",
    "U+1BA8", "U+1BA9", "U+1BAB", "U+1BAC", "U+1BAD", "U+1BE6", "U+1BE8",
    "U+1BE9", "U+1BED", "U+1BEF", "U+1BF0", "U+1BF1", "U+1C2C", "U+1C2D",
    "U+1C2E", "U+1C2F", "U+1C30", "U+1C31", "U+1C32", "U+1C33", "U+1C36",
    "U+1C37", "U+1C78", "U+1C79", "U+1C7A", "U+1C7B", "U+1C7C", "U+1C7D",
    "U+1CD0", "U+1CD1", "U+1CD2", "U+1CD4", "U+1CD5", "U+1CD6", "U+1CD7",
    "U+1CD8", "U+1CD9", "U+1CDA", "U+1CDB", "U+1CDC", "U+1CDD", "U+1CDE",
    "U+1CDF", "U+1CE0", "U+1CE2", "U+1CE3", "U+1CE4", "U+1CE5", "U+1CE6",
    "U+1CE7", "U+1CE8", "U+1CED", "U+1CF4", "U+1CF8", "U+1CF9", "U+1D2C",
    "U+1D2D", "U+1D2E", "U+1D2F", "U+1D30", "U+1D31", "U+1D32", "U+1D33",
    "U+1D34", "U+1D35", "U+1D36", "U+1D37", "U+1D38", "U+1D39", "U+1D3A",
    "U+1D3B", "U+1D3C", "U+1D3D", "U+1D3E", "U+1D3F", "U+1D40", "U+1D41",
    "U+1D42", "U+1D43", "U+1D44", "U+1D45", "U+1D46", "U+1D47", "U+1D48",
    "U+1D49", "U+1D4A", "U+1D4B", "U+1D4C", "U+1D4D", "U+1D4E", "U+1D4F",
    "U+1D50", "U+1D51", "U+1D52", "U+1D53", "U+1D54", "U+1D55", "U+1D56",
    "U+1D57", "U+1D58", "U+1D59", "U+1D5A", "U+1D5B", "U+1D5C", "U+1D5D",
    "U+1D5E", "U+1D5F", "U+1D60", "U+1D61", "U+1D62", "U+1D63", "U+1D64",
    "U+1D65", "U+1D66", "U+1D67", "U+1D68", "U+1D69", "U+1D6A", "U+1D78",
    "U+1D9B", "U+1D9C", "U+1D9D", "U+1D9E", "U+1D9F", "U+1DA0", "U+1DA1",
    "U+1DA2", "U+1DA3", "U+1DA4", "U+1DA5", "U+1DA6", "U+1DA7", "U+1DA8",
    "U+1DA9", "U+1DAA", "U+1DAB", "U+1DAC", "U+1DAD", "U+1DAE", "U+1DAF",
    "U+1DB0", "U+1DB1", "U+1DB2", "U+1DB3", "U+1DB4", "U+1DB5", "U+1DB6",
    "U+1DB7", "U+1DB8", "U+1DB9", "U+1DBA", "U+1DBB", "U+1DBC", "U+1DBD",
    "U+1DBE", "U+1DBF", "U+1DC0", "U+1DC1", "U+1DC2", "U+1DC3", "U+1DC4",
    "U+1DC5", "U+1DC6", "U+1DC7", "U+1DC8", "U+1DC9", "U+1DCA", "U+1DCB",
    "U+1DCC", "U+1DCD", "U+1DCE", "U+1DCF", "U+1DD0", "U+1DD1", "U+1DD2",
    "U+1DD3", "U+1DD4", "U+1DD5", "U+1DD6", "U+1DD7", "U+1DD8", "U+1DD9",
    "U+1DDA", "U+1DDB", "U+1DDC", "U+1DDD", "U+1DDE", "U+1DDF", "U+1DE0",
    "U+1DE1", "U+1DE2", "U+1DE3", "U+1DE4", "U+1DE5", "U+1DE6", "U+1DE7",
    "U+1DE8", "U+1DE9", "U+1DEA", "U+1DEB", "U+1DEC", "U+1DED", "U+1DEE",
    "U+1DEF", "U+1DF0", "U+1DF1", "U+1DF2", "U+1DF3", "U+1DF4", "U+1DF5",
    "U+1DF6", "U+1DF7", "U+1DF8", "U+1DF9", "U+1DFA", "U+1DFB", "U+1DFC",
    "U+1DFD", "U+1DFE", "U+1DFF", "U+1FBD", "U+1FBF", "U+1FC0", "U+1FC1",
    "U+1FCD", "U+1FCE", "U+1FCF", "U+1FDD", "U+1FDE", "U+1FDF", "U+1FED",
    "U+1FEE", "U+1FEF", "U+1FFD", "U+1FFE", "U+200B", "U+200C", "U+200D",
    "U+200E", "U+200F", "U+2018", "U+2019", "U+2024", "U+2027", "U+202A",
    "U+202B", "U+202C", "U+202D", "U+202E", "U+2060", "U+2061", "U+2062",
    "U+2063", "U+2064", "U+2066", "U+2067", "U+2068", "U+2069", "U+206A",
    "U+206B", "U+206C", "U+206D", "U+206E", "U+206F", "U+2071", "U+207F",
    "U+2090", "U+2091", "U+2092", "U+2093", "U+2094", "U+2095", "U+2096",
    "U+2097", "U+2098", "U+2099", "U+209A", "U+209B", "U+209C", "U+20D0",
    "U+20D1", "U+20D2", "U+20D3", "U+20D4", "U+20D5", "U+20D6", "U+20D7",
    "U+20D8", "U+20D9", "U+20DA", "U+20DB", "U+20DC", "U+20DD", "U+20DE",
    "U+20DF", "U+20E0", "U+20E1", "U+20E2", "U+20E3", "U+20E4", "U+20E5",
    "U+20E6", "U+20E7", "U+20E8", "U+20E9", "U+20EA", "U+20EB", "U+20EC",
    "U+20ED", "U+20EE", "U+20EF", "U+20F0", "U+2C7C", "U+2C7D", "U+2CEF",
    "U+2CF0", "U+2CF1", "U+2D6F", "U+2D7F", "U+2DE0", "U+2DE1", "U+2DE2",
    "U+2DE3", "U+2DE4", "U+2DE5", "U+2DE6", "U+2DE7", "U+2DE8", "U+2DE9",
    "U+2DEA", "U+2DEB", "U+2DEC", "U+2DED", "U+2DEE", "U+2DEF", "U+2DF0",
    "U+2DF1", "U+2DF2", "U+2DF3", "U+2DF4", "U+2DF5", "U+2DF6", "U+2DF7",
    "U+2DF8", "U+2DF9", "U+2DFA", "U+2DFB", "U+2DFC", "U+2DFD", "U+2DFE",
    "U+2DFF", "U+2E2F", "U+3005", "U+302A", "U+302B", "U+302C", "U+302D",
    "U+3031", "U+3032", "U+3033", "U+3034", "U+3035", "U+303B", "U+3099",
    "U+309A", "U+309B", "U+309C", "U+309D", "U+309E", "U+30FC", "U+30FD",
    "U+30FE", "U+A015", "U+A4F8", "U+A4F9", "U+A4FA", "U+A4FB", "U+A4FC",
    "U+A4FD", "U+A60C", "U+A66F", "U+A670", "U+A671", "U+A672", "U+A674",
    "U+A675", "U+A676", "U+A677", "U+A678", "U+A679", "U+A67A", "U+A67B",
    "U+A67C", "U+A67D", "U+A67F", "U+A69C", "U+A69D", "U+A69E", "U+A69F",
    "U+A6F0", "U+A6F1", "U+A700", "U+A701", "U+A702", "U+A703", "U+A704",
    "U+A705", "U+A706", "U+A707", "U+A708", "U+A709", "U+A70A", "U+A70B",
    "U+A70C", "U+A70D", "U+A70E", "U+A70F", "U+A710", "U+A711", "U+A712",
    "U+A713", "U+A714", "U+A715", "U+A716", "U+A717", "U+A718", "U+A719",
    "U+A71A", "U+A71B", "U+A71C", "U+A71D", "U+A71E", "U+A71F", "U+A720",
    "U+A721", "U+A770", "U+A788", "U+A789", "U+A78A", "U+A7F2", "U+A7F3",
    "U+A7F4", "U+A7F8", "U+A7F9", "U+A802", "U+A806", "U+A80B", "U+A825",
    "U+A826", "U+A82C", "U+A8C4", "U+A8C5", "U+A8E0", "U+A8E1", "U+A8E2",
    "U+A8E3", "U+A8E4", "U+A8E5", "U+A8E6", "U+A8E7", "U+A8E8", "U+A8E9",
    "U+A8EA", "U+A8EB", "U+A8EC", "U+A8ED", "U+A8EE", "U+A8EF", "U+A8F0",
    "U+A8F1", "U+A8FF", "U+A926", "U+A927", "U+A928", "U+A929", "U+A92A",
    "U+A92B", "U+A92C", "U+A92D", "U+A947", "U+A948", "U+A949", "U+A94A",
    "U+A94B", "U+A94C", "U+A94D", "U+A94E", "U+A94F", "U+A950", "U+A951",
    "U+A980", "U+A981", "U+A982", "U+A9B3", "U+A9B6", "U+A9B7", "U+A9B8",
    "U+A9B9", "U+A9BC", "U+A9BD", "U+A9CF", "U+A9E5", "U+A9E6", "U+AA29",
    "U+AA2A", "U+AA2B", "U+AA2C", "U+AA2D", "U+AA2E", "U+AA31", "U+AA32",
    "U+AA35", "U+AA36", "U+AA43", "U+AA4C", "U+AA70", "U+AA7C", "U+AAB0",
    "U+AAB2", "U+AAB3", "U+AAB4", "U+AAB7", "U+AAB8", "U+AABE", "U+AABF",
    "U+AAC1", "U+AADD", "U+AAEC", "U+AAED", "U+AAF3", "U+AAF4", "U+AAF6",
    "U+AB5B", "U+AB5C", "U+AB5D", "U+AB5E", "U+AB5F", "U+AB69", "U+AB6A",
    "U+AB6B", "U+ABE5", "U+ABE8", "U+ABED", "U+FB1E", "U+FBB2", "U+FBB3",
    "U+FBB4", "U+FBB5", "U+FBB6", "U+FBB7", "U+FBB8", "U+FBB9", "U+FBBA",
    "U+FBBB", "U+FBBC", "U+FBBD", "U+FBBE", "U+FBBF", "U+FBC0", "U+FBC1",
    "U+FBC2", "U+FE00", "U+FE01", "U+FE02", "U+FE03", "U+FE04", "U+FE05",
    "U+FE06", "U+FE07", "U+FE08", "U+FE09", "U+FE0A", "U+FE0B", "U+FE0C",
    "U+FE0D", "U+FE0E", "U+FE0F", "U+FE13", "U+FE20", "U+FE21", "U+FE22",
    "U+FE23", "U+FE24", "U+FE25", "U+FE26", "U+FE27", "U+FE28", "U+FE29",
    "U+FE2A", "U+FE2B", "U+FE2C", "U+FE2D", "U+FE2E", "U+FE2F", "U+FE52",
    "U+FE55", "U+FEFF", "U+FF07", "U+FF0E", "U+FF1A", "U+FF3E", "U+FF40",
    "U+FF70", "U+FF9E", "U+FF9F", "U+FFE3", "U+FFF9", "U+FFFA", "U+FFFB",
    "U+101FD", "U+102E0", "U+10376", "U+10377", "U+10378", "U+10379",
    "U+1037A", "U+10780", "U+10781", "U+10782", "U+10783", "U+10784",
    "U+10785", "U+10787", "U+10788", "U+10789", "U+1078A", "U+1078B",
    "U+1078C", "U+1078D", "U+1078E", "U+1078F", "U+10790", "U+10791",
    "U+10792", "U+10793", "U+10794", "U+10795", "U+10796", "U+10797",
    "U+10798", "U+10799", "U+1079A", "U+1079B", "U+1079C", "U+1079D",
    "U+1079E", "U+1079F", "U+107A0", "U+107A1", "U+107A2", "U+107A3",
    "U+107A4", "U+107A5", "U+107A6", "U+107A7", "U+107A8", "U+107A9",
    "U+107AA", "U+107AB", "U+107AC", "U+107AD", "U+107AE", "U+107AF",
    "U+107B0", "U+107B2", "U+107B3", "U+107B4", "U+107B5", "U+107B6",
    "U+107B7", "U+107B8", "U+107B9", "U+107BA", "U+10A01", "U+10A02",
    "U+10A03", "U+10A05", "U+10A06", "U+10A0C", "U+10A0D", "U+10A0E",
    "U+10A0F", "U+10A38", "U+10A39", "U+10A3A", "U+10A3F", "U+10AE5",
    "U+10AE6", "U+10D24", "U+10D25", "U+10D26", "U+10D27", "U+10EAB",
    "U+10EAC", "U+10F46", "U+10F47", "U+10F48", "U+10F49", "U+10F4A",
    "U+10F4B", "U+10F4C", "U+10F4D", "U+10F4E", "U+10F4F", "U+10F50",
    "U+10F82", "U+10F83", "U+10F84", "U+10F85", "U+11001", "U+11038",
    "U+11039", "U+1103A", "U+1103B", "U+1103C", "U+1103D", "U+1103E",
    "U+1103F", "U+11040", "U+11041", "U+11042", "U+11043", "U+11044",
    "U+11045", "U+11046", "U+11070", "U+11073", "U+11074", "U+1107F",
    "U+11080", "U+11081", "U+110B3", "U+110B4", "U+110B5", "U+110B6",
    "U+110B9", "U+110BA", "U+110BD", "U+110C2", "U+110CD", "U+11100",
    "U+11101", "U+11102", "U+11127", "U+11128", "U+11129", "U+1112A",
    "U+1112B", "U+1112D", "U+1112E", "U+1112F", "U+11130", "U+11131",
    "U+11132", "U+11133", "U+11134", "U+11173", "U+11180", "U+11181",
    "U+111B6", "U+111B7", "U+111B8", "U+111B9", "U+111BA", "U+111BB",
    "U+111BC", "U+111BD", "U+111BE", "U+111C9", "U+111CA", "U+111CB",
    "U+111CC", "U+111CF", "U+1122F", "U+11230", "U+11231", "U+11234",
    "U+11236", "U+11237", "U+1123E", "U+112DF", "U+112E3", "U+112E4",
    "U+112E5", "U+112E6", "U+112E7", "U+112E8", "U+112E9", "U+112EA",
    "U+11300", "U+11301", "U+1133B", "U+1133C", "U+11340", "U+11366",
    "U+11367", "U+11368", "U+11369", "U+1136A", "U+1136B", "U+1136C",
    "U+11370", "U+11371", "U+11372", "U+11373", "U+11374", "U+11438",
    "U+11439", "U+1143A", "U+1143B", "U+1143C", "U+1143D", "U+1143E",
    "U+1143F", "U+11442", "U+11443", "U+11444", "U+11446", "U+1145E",
    "U+114B3", "U+114B4", "U+114B5", "U+114B6", "U+114B7", "U+114B8",
    "U+114BA", "U+114BF", "U+114C0", "U+114C2", "U+114C3", "U+115B2",
    "U+115B3", "U+115B4", "U+115B5", "U+115BC", "U+115BD", "U+115BF",
    "U+115C0", "U+115DC", "U+115DD", "U+11633", "U+11634", "U+11635",
    "U+11636", "U+11637", "U+11638", "U+11639", "U+1163A", "U+1163D",
    "U+1163F", "U+11640", "U+116AB", "U+116AD", "U+116B0", "U+116B1",
    "U+116B2", "U+116B3", "U+116B4", "U+116B5", "U+116B7", "U+1171D",
    "U+1171E", "U+1171F", "U+11722", "U+11723", "U+11724", "U+11725",
    "U+11727", "U+11728", "U+11729", "U+1172A", "U+1172B", "U+1182F",
    "U+11830", "U+11831", "U+11832", "U+11833", "U+11834", "U+11835",
    "U+11836", "U+11837", "U+11839", "U+1183A", "U+1193B", "U+1193C",
    "U+1193E", "U+11943", "U+119D4", "U+119D5", "U+119D6", "U+119D7",
    "U+119DA", "U+119DB", "U+119E0", "U+11A01", "U+11A02", "U+11A03",
    "U+11A04", "U+11A05", "U+11A06", "U+11A07", "U+11A08", "U+11A09",
    "U+11A0A", "U+11A33", "U+11A34", "U+11A35", "U+11A36", "U+11A37",
    "U+11A38", "U+11A3B", "U+11A3C", "U+11A3D", "U+11A3E", "U+11A47",
    "U+11A51", "U+11A52", "U+11A53", "U+11A54", "U+11A55", "U+11A56",
    "U+11A59", "U+11A5A", "U+11A5B", "U+11A8A", "U+11A8B", "U+11A8C",
    "U+11A8D", "U+11A8E", "U+11A8F", "U+11A90", "U+11A91", "U+11A92",
    "U+11A93", "U+11A94", "U+11A95", "U+11A96", "U+11A98", "U+11A99",
    "U+11C30", "U+11C31", "U+11C32", "U+11C33", "U+11C34", "U+11C35",
    "U+11C36", "U+11C38", "U+11C39", "U+11C3A", "U+11C3B", "U+11C3C",
    "U+11C3D", "U+11C3F", "U+11C92", "U+11C93", "U+11C94", "U+11C95",
    "U+11C96", "U+11C97", "U+11C98", "U+11C99", "U+11C9A", "U+11C9B",
    "U+11C9C", "U+11C9D", "U+11C9E", "U+11C9F", "U+11CA0", "U+11CA1",
    "U+11CA2", "U+11CA3", "U+11CA4", "U+11CA5", "U+11CA6", "U+11CA7",
    "U+11CAA", "U+11CAB", "U+11CAC", "U+11CAD", "U+11CAE", "U+11CAF",
    "U+11CB0", "U+11CB2", "U+11CB3", "U+11CB5", "U+11CB6", "U+11D31",
    "U+11D32", "U+11D33", "U+11D34", "U+11D35", "U+11D36", "U+11D3A",
    "U+11D3C", "U+11D3D", "U+11D3F", "U+11D40", "U+11D41", "U+11D42",
    "U+11D43", "U+11D44", "U+11D45", "U+11D47", "U+11D90", "U+11D91",
    "U+11D95", "U+11D97", "U+11EF3", "U+11EF4", "U+13430", "U+13431",
    "U+13432", "U+13433", "U+13434", "U+13435", "U+13436", "U+13437",
    "U+13438", "U+16AF0", "U+16AF1", "U+16AF2", "U+16AF3", "U+16AF4",
    "U+16B30", "U+16B31", "U+16B32", "U+16B33", "U+16B34", "U+16B35",
    "U+16B36", "U+16B40", "U+16B41", "U+16B42", "U+16B43", "U+16F4F",
    "U+16F8F", "U+16F90", "U+16F91", "U+16F92", "U+16F93", "U+16F94",
    "U+16F95", "U+16F96", "U+16F97", "U+16F98", "U+16F99", "U+16F9A",
    "U+16F9B", "U+16F9C", "U+16F9D", "U+16F9E", "U+16F9F", "U+16FE0",
    "U+16FE1", "U+16FE3", "U+16FE4", "U+1AFF0", "U+1AFF1", "U+1AFF2",
    "U+1AFF3", "U+1AFF5", "U+1AFF6", "U+1AFF7", "U+1AFF8", "U+1AFF9",
    "U+1AFFA", "U+1AFFB", "U+1AFFD", "U+1AFFE", "U+1BC9D", "U+1BC9E",
    "U+1BCA0", "U+1BCA1", "U+1BCA2", "U+1BCA3", "U+1CF00", "U+1CF01",
    "U+1CF02", "U+1CF03", "U+1CF04", "U+1CF05", "U+1CF06", "U+1CF07",
    "U+1CF08", "U+1CF09", "U+1CF0A", "U+1CF0B", "U+1CF0C", "U+1CF0D",
    "U+1CF0E", "U+1CF0F", "U+1CF10", "U+1CF11", "U+1CF12", "U+1CF13",
    "U+1CF14", "U+1CF15", "U+1CF16", "U+1CF17", "U+1CF18", "U+1CF19",
    "U+1CF1A", "U+1CF1B", "U+1CF1C", "U+1CF1D", "U+1CF1E", "U+1CF1F",
    "U+1CF20", "U+1CF21", "U+1CF22", "U+1CF23", "U+1CF24", "U+1CF25",
    "U+1CF26", "U+1CF27", "U+1CF28", "U+1CF29", "U+1CF2A", "U+1CF2B",
    "U+1CF2C", "U+1CF2D", "U+1CF30", "U+1CF31", "U+1CF32", "U+1CF33",
    "U+1CF34", "U+1CF35", "U+1CF36", "U+1CF37", "U+1CF38", "U+1CF39",
    "U+1CF3A", "U+1CF3B", "U+1CF3C", "U+1CF3D", "U+1CF3E", "U+1CF3F",
    "U+1CF40", "U+1CF41", "U+1CF42", "U+1CF43", "U+1CF44", "U+1CF45",
    "U+1CF46", "U+1D167", "U+1D168", "U+1D169", "U+1D173", "U+1D174",
    "U+1D175", "U+1D176", "U+1D177", "U+1D178", "U+1D179", "U+1D17A",
    "U+1D17B", "U+1D17C", "U+1D17D", "U+1D17E", "U+1D17F", "U+1D180",
    "U+1D181", "U+1D182", "U+1D185", "U+1D186", "U+1D187", "U+1D188",
    "U+1D189", "U+1D18A", "U+1D18B", "U+1D1AA", "U+1D1AB", "U+1D1AC",
    "U+1D1AD", "U+1D242", "U+1D243", "U+1D244", "U+1DA00", "U+1DA01",
    "U+1DA02", "U+1DA03", "U+1DA04", "U+1DA05", "U+1DA06", "U+1DA07",
    "U+1DA08", "U+1DA09", "U+1DA0A", "U+1DA0B", "U+1DA0C", "U+1DA0D",
    "U+1DA0E", "U+1DA0F", "U+1DA10", "U+1DA11", "U+1DA12", "U+1DA13",
    "U+1DA14", "U+1DA15", "U+1DA16", "U+1DA17", "U+1DA18", "U+1DA19",
    "U+1DA1A", "U+1DA1B", "U+1DA1C", "U+1DA1D", "U+1DA1E", "U+1DA1F",
    "U+1DA20", "U+1DA21", "U+1DA22", "U+1DA23", "U+1DA24", "U+1DA25",
    "U+1DA26", "U+1DA27", "U+1DA28", "U+1DA29", "U+1DA2A", "U+1DA2B",
    "U+1DA2C", "U+1DA2D", "U+1DA2E", "U+1DA2F", "U+1DA30", "U+1DA31",
    "U+1DA32", "U+1DA33", "U+1DA34", "U+1DA35", "U+1DA36", "U+1DA3B",
    "U+1DA3C", "U+1DA3D", "U+1DA3E", "U+1DA3F", "U+1DA40", "U+1DA41",
    "U+1DA42", "U+1DA43", "U+1DA44", "U+1DA45", "U+1DA46", "U+1DA47",
    "U+1DA48", "U+1DA49", "U+1DA4A", "U+1DA4B", "U+1DA4C", "U+1DA4D",
    "U+1DA4E", "U+1DA4F", "U+1DA50", "U+1DA51", "U+1DA52", "U+1DA53",
    "U+1DA54", "U+1DA55", "U+1DA56", "U+1DA57", "U+1DA58", "U+1DA59",
    "U+1DA5A", "U+1DA5B", "U+1DA5C", "U+1DA5D", "U+1DA5E", "U+1DA5F",
    "U+1DA60", "U+1DA61", "U+1DA62", "U+1DA63", "U+1DA64", "U+1DA65",
    "U+1DA66", "U+1DA67", "U+1DA68", "U+1DA69", "U+1DA6A", "U+1DA6B",
    "U+1DA6C", "U+1DA75", "U+1DA84", "U+1DA9B", "U+1DA9C", "U+1DA9D",
    "U+1DA9E", "U+1DA9F", "U+1DAA1", "U+1DAA2", "U+1DAA3", "U+1DAA4",
    "U+1DAA5", "U+1DAA6", "U+1DAA7", "U+1DAA8", "U+1DAA9", "U+1DAAA",
    "U+1DAAB", "U+1DAAC", "U+1DAAD", "U+1DAAE", "U+1DAAF", "U+1E000",
    "U+1E001", "U+1E002", "U+1E003", "U+1E004", "U+1E005", "U+1E006",
    "U+1E008", "U+1E009", "U+1E00A", "U+1E00B", "U+1E00C", "U+1E00D",
    "U+1E00E", "U+1E00F", "U+1E010", "U+1E011", "U+1E012", "U+1E013",
    "U+1E014", "U+1E015", "U+1E016", "U+1E017", "U+1E018", "U+1E01B",
    "U+1E01C", "U+1E01D", "U+1E01E", "U+1E01F", "U+1E020", "U+1E021",
    "U+1E023", "U+1E024", "U+1E026", "U+1E027", "U+1E028", "U+1E029",
    "U+1E02A", "U+1E130", "U+1E131", "U+1E132", "U+1E133", "U+1E134",
    "U+1E135", "U+1E136", "U+1E137", "U+1E138", "U+1E139", "U+1E13A",
    "U+1E13B", "U+1E13C", "U+1E13D", "U+1E2AE", "U+1E2EC", "U+1E2ED",
    "U+1E2EE", "U+1E2EF", "U+1E8D0", "U+1E8D1", "U+1E8D2", "U+1E8D3",
    "U+1E8D4", "U+1E8D5", "U+1E8D6", "U+1E944", "U+1E945", "U+1E946",
    "U+1E947", "U+1E948", "U+1E949", "U+1E94A", "U+1E94B", "U+1F3FB",
    "U+1F3FC", "U+1F3FD", "U+1F3FE", "U+1F3FF", "U+E0001", "U+E0020",
    "U+E0021", "U+E0022", "U+E0023", "U+E0024", "U+E0025", "U+E0026",
    "U+E0027", "U+E0028", "U+E0029", "U+E002A", "U+E002B", "U+E002C",
    "U+E002D", "U+E002E", "U+E002F", "U+E0030", "U+E0031", "U+E0032",
    "U+E0033", "U+E0034", "U+E0035", "U+E0036", "U+E0037", "U+E0038",
    "U+E0039", "U+E003A", "U+E003B", "U+E003C", "U+E003D", "U+E003E",
    "U+E003F", "U+E0040", "U+E0041", "U+E0042", "U+E0043", "U+E0044",
    "U+E0045", "U+E0046", "U+E0047", "U+E0048", "U+E0049", "U+E004A",
    "U+E004B", "U+E004C", "U+E004D", "U+E004E", "U+E004F", "U+E0050",
    "U+E0051", "U+E0052", "U+E0053", "U+E0054", "U+E0055", "U+E0056",
    "U+E0057", "U+E0058", "U+E0059", "U+E005A", "U+E005B", "U+E005C",
    "U+E005D", "U+E005E", "U+E005F", "U+E0060", "U+E0061", "U+E0062",
    "U+E0063", "U+E0064", "U+E0065", "U+E0066", "U+E0067", "U+E0068",
    "U+E0069", "U+E006A", "U+E006B", "U+E006C", "U+E006D", "U+E006E",
    "U+E006F", "U+E0070", "U+E0071", "U+E0072", "U+E0073", "U+E0074",
    "U+E0075", "U+E0076", "U+E0077", "U+E0078", "U+E0079", "U+E007A",
    "U+E007B", "U+E007C", "U+E007D", "U+E007E", "U+E007F", "U+E0100",
    "U+E0101", "U+E0102", "U+E0103", "U+E0104", "U+E0105", "U+E0106",
    "U+E0107", "U+E0108", "U+E0109", "U+E010A", "U+E010B", "U+E010C",
    "U+E010D", "U+E010E", "U+E010F", "U+E0110", "U+E0111", "U+E0112",
    "U+E0113", "U+E0114", "U+E0115", "U+E0116", "U+E0117", "U+E0118",
    "U+E0119", "U+E011A", "U+E011B", "U+E011C", "U+E011D", "U+E011E",
    "U+E011F", "U+E0120", "U+E0121", "U+E0122", "U+E0123", "U+E0124",
    "U+E0125", "U+E0126", "U+E0127", "U+E0128", "U+E0129", "U+E012A",
    "U+E012B", "U+E012C", "U+E012D", "U+E012E", "U+E012F", "U+E0130",
    "U+E0131", "U+E0132", "U+E0133", "U+E0134", "U+E0135", "U+E0136",
    "U+E0137", "U+E0138", "U+E0139", "U+E013A", "U+E013B", "U+E013C",
    "U+E013D", "U+E013E", "U+E013F", "U+E0140", "U+E0141", "U+E0142",
    "U+E0143", "U+E0144", "U+E0145", "U+E0146", "U+E0147", "U+E0148",
    "U+E0149", "U+E014A", "U+E014B", "U+E014C", "U+E014D", "U+E014E",
    "U+E014F", "U+E0150", "U+E0151", "U+E0152", "U+E0153", "U+E0154",
    "U+E0155", "U+E0156", "U+E0157", "U+E0158", "U+E0159", "U+E015A",
    "U+E015B", "U+E015C", "U+E015D", "U+E015E", "U+E015F", "U+E0160",
    "U+E0161", "U+E0162", "U+E0163", "U+E0164", "U+E0165", "U+E0166",
    "U+E0167", "U+E0168", "U+E0169", "U+E016A", "U+E016B", "U+E016C",
    "U+E016D", "U+E016E", "U+E016F", "U+E0170", "U+E0171", "U+E0172",
    "U+E0173", "U+E0174", "U+E0175", "U+E0176", "U+E0177", "U+E0178",
    "U+E0179", "U+E017A", "U+E017B", "U+E017C", "U+E017D", "U+E017E",
    "U+E017F", "U+E0180", "U+E0181", "U+E0182", "U+E0183", "U+E0184",
    "U+E0185", "U+E0186", "U+E0187", "U+E0188", "U+E0189", "U+E018A",
    "U+E018B", "U+E018C", "U+E018D", "U+E018E", "U+E018F", "U+E0190",
    "U+E0191", "U+E0192", "U+E0193", "U+E0194", "U+E0195", "U+E0196",
    "U+E0197", "U+E0198", "U+E0199", "U+E019A", "U+E019B", "U+E019C",
    "U+E019D", "U+E019E", "U+E019F", "U+E01A0", "U+E01A1", "U+E01A2",
    "U+E01A3", "U+E01A4", "U+E01A5", "U+E01A6", "U+E01A7", "U+E01A8",
    "U+E01A9", "U+E01AA", "U+E01AB", "U+E01AC", "U+E01AD", "U+E01AE",
    "U+E01AF", "U+E01B0", "U+E01B1", "U+E01B2", "U+E01B3", "U+E01B4",
    "U+E01B5", "U+E01B6", "U+E01B7", "U+E01B8", "U+E01B9", "U+E01BA",
    "U+E01BB", "U+E01BC", "U+E01BD", "U+E01BE", "U+E01BF", "U+E01C0",
    "U+E01C1", "U+E01C2", "U+E01C3", "U+E01C4", "U+E01C5", "U+E01C6",
    "U+E01C7", "U+E01C8", "U+E01C9", "U+E01CA", "U+E01CB", "U+E01CC",
    "U+E01CD", "U+E01CE", "U+E01CF", "U+E01D0", "U+E01D1", "U+E01D2",
    "U+E01D3", "U+E01D4", "U+E01D5", "U+E01D6", "U+E01D7", "U+E01D8",
    "U+E01D9", "U+E01DA", "U+E01DB", "U+E01DC", "U+E01DD", "U+E01DE",
    "U+E01DF", "U+E01E0", "U+E01E1", "U+E01E2", "U+E01E3", "U+E01E4",
    "U+E01E5", "U+E01E6", "U+E01E7", "U+E01E8", "U+E01E9", "U+E01EA",
    "U+E01EB", "U+E01EC", "U+E01ED", "U+E01EE", "U+E01EF"
   }

lowercase == dict(lower_items)

LOWERED == DOMAIN lowercase

\* the capital sigma at position k is final: a cased character comes
\* before it and none after it, the case-ignorable characters between
\* passed over
final_sigma(s, k) ==
   LET before == {m \in 1..(k - 1) : s[m] \notin CASE_IGNORABLE}
       after == {m \in (k + 1)..Len(s) : s[m] \notin CASE_IGNORABLE}
   IN  /\ before # {}
       /\ s[CHOOSE m \in before : \A n \in before : n <= m] \in CASED
       /\ \/ after = {}
          \/ s[CHOOSE m \in after : \A n \in after : m <= n] \notin CASED

\* what the character at position k of s becomes
lower_at(s, k) ==
   IF s[k] = "U+03A3"
   THEN <<IF final_sigma(s, k) THEN "U+03C2" ELSE "U+03C3">>
   ELSE IF s[k] \in LOWERED THEN lowercase[s[k]] ELSE <<s[k]>>

\* s.lower()
lower(s) == concat([k \in 1..Len(s) |-> lower_at(s, k)])

(***************************************************************************)
(* urllib.parse.urlparse, as far as is_url and generate_output_name use    *)
(* it: the scheme and the netloc, or ValueError.                           *)
(***************************************************************************)
ALPHA_LOWER ==
   {"a", "b", "c", "d", "e", "f", "g", "h", "i", "j", "k", "l", "m",
    "n", "o", "p", "q", "r", "s", "t", "u", "v", "w", "x", "y", "z"}
ALPHA_UPPER ==
   {"A", "B", "C", "D", "E", "F", "G", "H", "I", "J", "K", "L", "M",
    "N", "O", "P", "Q", "R", "S", "T", "U", "V", "W", "X", "Y", "Z"}
DIGITS == {"0", "1", "2", "3", "4", "5", "6", "7", "8", "9"}
scheme_chars == ALPHA_LOWER \cup ALPHA_UPPER \cup DIGITS \cup {"+", "-", "."}

\* the C0 controls and the space, which urlsplit strips on the left
WHATWG_C0_CONTROL_OR_SPACE ==
   {"U+0000", "U+0001", "U+0002", "U+0003", "U+0004", "U+0005", "U+0006",
    "U+0007", "U+0008", "\t", "\n", "U+000B", "\f", "\r", "U+000E",
    "U+000F", "U+0010", "U+0011", "U+0012", "U+0013", "U+0014", "U+0015",
    "U+0016", "U+0017", "U+0018", "U+0019", "U+001A", "U+001B", "U+001C",
    "U+001D", "U+001E", "U+001F", " "}
UNSAFE_URL_BYTES_TO_REMOVE == {"\t", "\r", "\n"}

\* _splitnetloc(url, 2): the end of the netloc is the first of "/?#"
NetlocEnd(url) ==
   LET ends == {k \in 3..Len(url) : url[k] \in {"/", "?", "#"}}
   IN  IF ends = {} THEN Len(url) + 1
       ELSE CHOOSE k \in ends : \A m \in ends : k <= m

\* s.rfind(c) + 1: the last position holding c, 0 when none
Find_last(s, c) ==
   LET hits == {k \in 1..Len(s) : s[k] = c}
   IN  IF hits = {} THEN 0 ELSE CHOOSE k \in hits : \A m \in hits : m <= k

\* str.split(c)
RECURSIVE split(_, _)
split(s, c) ==
   LET k == Find(s, c, 1)
   IN  IF k = 0 THEN <<s>>
       ELSE <<SubSeq(s, 1, k - 1)>> \o split(From(s, k + 1), c)

\* the length of the longest run of characters of chars at the head of s
run_in(s, chars) ==
   LET others == {k \in 1..Len(s) : s[k] \notin chars}
   IN  IF others = {} THEN Len(s)
       ELSE (CHOOSE k \in others : \A m \in others : k <= m) - 1

\* sys.get_int_max_str_digits(): the longest string of digits int() takes
\* in a base that is no power of two
int_max_str_digits == 4300

\* the value of at most 7 digits, up to limit
RECURSIVE int_value(_, _, _)
int_value(digits, base, limit) ==
   IF digits = <<>> THEN 0
   ELSE LET c == digits[Len(digits)]
            d == IF c \in DIGITS THEN Ord(c) - 48
                 ELSE IF c \in ALPHA_LOWER THEN Ord(c) - 87 ELSE Ord(c) - 55
            high == int_value(SubSeq(digits, 1, Len(digits) - 1), base, limit)
        IN  IF high >= limit THEN limit
            ELSE IF (base * high) + d >= limit THEN limit
                 ELSE (base * high) + d

\* the value of the digits that follow the leading zeros: more than width
\* of them, width the least k with base^k >= limit, are worth limit or more
int_significant(digits, base, limit, width) ==
   IF Len(digits) > width THEN limit ELSE int_value(digits, base, limit)

\* int(digits, base) for a string of digits of the base: ValueError when it
\* is empty or, the base being no power of two, longer than
\* int_max_str_digits.  Every caller treats all values from limit on alike,
\* so the value stops at limit
int(digits, base, limit) ==
   IF digits = <<>> \/ (base \notin {2, 4, 8, 16, 32}
                        /\ Len(digits) > int_max_str_digits)
   THEN [error |-> "ValueError"]
   ELSE [error |-> "none",
         value |-> int_significant(
                      From(digits, run_in(digits, {"0"}) + 1), base, limit,
                      CHOOSE k \in 1..31 :
                         base ^ k >= limit /\ base ^ (k - 1) < limit)]

HEX_DIGITS ==
   DIGITS \cup {"a", "b", "c", "d", "e", "f", "A", "B", "C", "D", "E", "F"}

\* ipaddress._BaseV4._parse_octet does not raise
parse_octet(octet_str) ==
   /\ octet_str # <<>>
   /\ \A k \in 1..Len(octet_str) : octet_str[k] \in DIGITS
   /\ Len(octet_str) <= 3
   /\ ~(octet_str # <<"0">> /\ octet_str[1] = "0")
   /\ int(octet_str, 10, 1000).value <= 255

\* ipaddress.IPv4Address(address) does not raise
IPv4Address(address) ==
   /\ ~Contains(address, "/")
   /\ address # <<>>
   /\ LET octets == split(address, ".")
      IN  Len(octets) = 4 /\ \A k \in 1..4 : parse_octet(octets[k])

\* ipaddress._BaseV6._parse_hextet does not raise
parse_hextet(hextet_str) ==
   /\ \A k \in 1..Len(hextet_str) : hextet_str[k] \in HEX_DIGITS
   /\ Len(hextet_str) <= 4
   /\ hextet_str # <<>>

\* the hextets before and after a "::" at parts[skip] parse: parts_hi of
\* them from the front and parts_lo from the back, a leading or trailing
\* ":" being allowed only as part of the "::"
parse_skipped(parts, n, skip, parts_hi, parts_lo) ==
   /\ parts[1] = <<>> => parts_hi = 0
   /\ parts[n] = <<>> => parts_lo = 0
   /\ 8 - (parts_hi + parts_lo) >= 1
   /\ \A i \in 1..parts_hi : parse_hextet(parts[i])
   /\ \A i \in (n - parts_lo + 1)..n : parse_hextet(parts[i])

\* the parts of an address, an IPv4 suffix already replaced, parse
parse_parts(parts, n, skips) ==
   /\ n <= 9
   /\ Cardinality(skips) <= 1
   /\ IF skips # {}
      THEN LET skip == CHOOSE i \in skips : TRUE
           IN  parse_skipped(parts, n, skip,
                  IF parts[1] = <<>> THEN skip - 2 ELSE skip - 1,
                  IF parts[n] = <<>> THEN n - skip - 1 ELSE n - skip)
      ELSE /\ n = 8
           /\ parts[1] # <<>>
           /\ parts[n] # <<>>
           /\ \A i \in 1..n : parse_hextet(parts[i])

\* the parts of ip_str.split(':') parse; an IPv4 suffix is replaced by its
\* two hextets
split_parts(parts, last) ==
   /\ Len(parts) >= 3
   /\ IF Contains(last, ".")
      THEN /\ IPv4Address(last)
           /\ parse_parts(SubSeq(parts, 1, Len(parts) - 1) \o <<<<"0">>, <<"0">>>>,
                 Len(parts) + 1,
                 {i \in 2..(Len(parts) - 1) : parts[i] = <<>>})
      ELSE parse_parts(parts, Len(parts),
              {i \in 2..(Len(parts) - 1) : parts[i] = <<>>})

\* ipaddress._BaseV6._ip_int_from_string does not raise
ip_int_from_string(ip_str) ==
   /\ ip_str # <<>>
   /\ split_parts(split(ip_str, ":"), From(ip_str, Find_last(ip_str, ":") + 1))

\* _split_scope_id and the parse of the address before the "%" at sep
split_scope_id(address, sep) ==
   IF sep = 0 THEN ip_int_from_string(address)
   ELSE /\ sep < Len(address)
        /\ ~Contains(From(address, sep + 1), "%")
        /\ ip_int_from_string(SubSeq(address, 1, sep - 1))

\* ipaddress.IPv6Address(address) does not raise
IPv6Address(address) ==
   /\ ~Contains(address, "/")
   /\ split_scope_id(address, Find(address, "%", 1))

\* re.match(r"\Av[a-fA-F0-9]+\..+\Z", hostname), k hexadecimal digits
\* following the "v"
ipvfuture(hostname, k) ==
   /\ k >= 1
   /\ Len(hostname) >= k + 3
   /\ hostname[k + 2] = "."

\* urllib.parse._check_bracketed_host does not raise: the host is an
\* IPvFuture address, or ipaddress.ip_address makes an IPv6Address of it
\* (an IPv4Address raises)
check_bracketed_host(hostname) ==
   IF hostname # <<>> /\ hostname[1] = "v"
   THEN ipvfuture(hostname, run_in(Tail(hostname), HEX_DIGITS))
   ELSE ~IPv4Address(hostname) /\ IPv6Address(hostname)

\* after.partition(']')[0]
before_bracket(after) ==
   IF Contains(after, "]") THEN SubSeq(after, 1, Find(after, "]", 1) - 1)
   ELSE after

\* the characters whose NFKC form holds one of "/?#@:" (Unicode 14.0); no
\* character composes with one of these five, so the NFKC form of a text
\* holds one exactly when the text holds one of them or of these
NFKC_INVALID ==
   {"U+2047", "U+2048", "U+2049", "U+2100", "U+2101", "U+2105", "U+2106",
    "U+2A74", "U+FE13", "U+FE16", "U+FE55", "U+FE56", "U+FE5F", "U+FE6B",
    "U+FF03", "U+FF0F", "U+FF1A", "U+FF1F", "U+FF20"}

\* urllib.parse._checknetloc does not raise: the NFKC form of the netloc
\* without "@", ":", "#" and "?" holds none of "/?#@:" (the netloc that
\* _splitnetloc cuts holds none of "/?#" itself)
checknetloc(netloc) ==
   LET n == remove(netloc, {"@", ":", "#", "?"})
   IN  \A k \in 1..Len(n) : n[k] \notin NFKC_INVALID

\* the checks of urlsplit on the netloc do not raise
check_netloc(netloc) ==
   /\ IF Contains(netloc, "[")
      THEN /\ Contains(netloc, "]")
           /\ check_bracketed_host(
                 before_bracket(From(netloc, Find(netloc, "[", 1) + 1)))
      ELSE ~Contains(netloc, "]")
   /\ checknetloc(netloc)

\* the result of urlsplit for a scheme and a netloc
SplitResult(scheme, netloc) ==
   IF check_netloc(netloc)
   THEN [error |-> "none", scheme |-> scheme, netloc |-> netloc]
   ELSE [error |-> "ValueError"]

\* urlsplit on the text after the scheme
split_netloc(scheme, url) ==
   IF Len(url) >= 2 /\ url[1] = "/" /\ url[2] = "/"
   THEN SplitResult(scheme, SubSeq(url, 3, NetlocEnd(url) - 1))
   ELSE SplitResult(scheme, <<>>)

\* urlsplit on the stripped text, i the position of its first ":"
split_scheme(url, i) ==
   IF /\ i > 1
      /\ url[1] \in ALPHA_LOWER \cup ALPHA_UPPER
      /\ \A k \in 1..(i - 1) : url[k] \in scheme_chars
   THEN split_netloc(lower(SubSeq(url, 1, i - 1)), From(url, i + 1))
   ELSE split_netloc(<<>>, url)

strip_url(raw) ==
   remove(lstrip(raw, WHATWG_C0_CONTROL_OR_SPACE), UNSAFE_URL_BYTES_TO_REMOVE)

urlparse_stripped(url) == split_scheme(url, Find(url, ":", 1))

urlparse(raw) == urlparse_stripped(strip_url(raw))

\* all([result.scheme, result.netloc]), False on ValueError
is_url(url) ==
   LET result == urlparse(url)
   IN  IF result.error = "ValueError" THEN FALSE
       ELSE result.scheme # <<>> /\ result.netloc # <<>>

(***************************************************************************)
(* hashlib.md5 on 32-bit words kept as <<high 16 bits, low 16 bits>>.      *)
(***************************************************************************)
RECURSIVE And16(_, _)
And16(a, b) ==
   IF a = 0 \/ b = 0 THEN 0
   ELSE ((a % 2) * (b % 2)) + (2 * And16(a \div 2, b \div 2))

WAnd(x, y) == <<And16(x[1], y[1]), And16(x[2], y[2])>>
WOr(x, y)  == <<x[1] + y[1] - And16(x[1], y[1]),
                x[2] + y[2] - And16(x[2], y[2])>>
WXor(x, y) == <<x[1] + y[1] - 2 * And16(x[1], y[1]),
                x[2] + y[2] - 2 * And16(x[2], y[2])>>
WNot(x)    == <<65535 - x[1], 65535 - x[2]>>
WAdd(x, y) ==
   LET lo == x[2] + y[2]
       hi == x[1] + y[1] + (lo \div 65536)
   IN  <<hi % 65536, lo % 65536>>

\* rotate left by s bits, 0 < s < 32
Rotl(x, s) ==
   LET y == IF s >= 16 THEN <<x[2], x[1]>> ELSE x
       r == s % 16
       p == 2 ^ r
       q == 2 ^ (16 - r)
   IN  IF r = 0 THEN y
       ELSE <<((y[1] * p) % 65536) + (y[2] \div q),
              ((y[2] * p) % 65536) + (y[1] \div q)>>

md5_S ==
   << 7, 12, 17, 22, 7, 12, 17, 22, 7, 12, 17, 22, 7, 12, 17, 22,
      5, 9, 14, 20, 5, 9, 14, 20, 5, 9, 14, 20, 5, 9, 14, 20,
      4, 11, 16, 23, 4, 11, 16, 23, 4, 11, 16, 23, 4, 11, 16, 23,
      6, 10, 15, 21, 6, 10, 15, 21, 6, 10, 15, 21, 6, 10, 15, 21 >>

md5_K ==
   <<
      <<55146, 42104>>, <<59591, 46934>>, <<9248, 28891>>, <<49597, 52974>>,
      <<62844, 4015>>, <<18311, 50730>>, <<43056, 17939>>, <<64838, 38145>>,
      <<27008, 39128>>, <<35652, 63407>>, <<65535, 23473>>, <<35164, 55230>>,
      <<27536, 4386>>, <<64920, 29075>>, <<42617, 17294>>, <<18868, 2081>>,
      <<63006, 9570>>, <<49216, 45888>>, <<9822, 23121>>, <<59830, 51114>>,
      <<54831, 4189>>, <<580, 5203>>, <<55457, 59009>>, <<59347, 64456>>,
      <<8673, 52710>>, <<49975, 2006>>, <<62677, 3463>>, <<17754, 5357>>,
      <<43491, 59653>>, <<64751, 41976>>, <<26479, 729>>, <<36138, 19594>>,
      <<65530, 14658>>, <<34673, 63105>>, <<28061, 24866>>, <<64997, 14348>>,
      <<42174, 59972>>, <<19422, 53161>>, <<63163, 19296>>, <<48831, 48240>>,
      <<10395, 32454>>, <<60065, 10234>>, <<54511, 12421>>, <<1160, 7429>>,
      <<55764, 53305>>, <<59099, 39397>>, <<8098, 31992>>, <<50348, 22117>>,
      <<62505, 8772>>, <<17194, 65431>>, <<43924, 9127>>, <<64659, 41017>>,
      <<25947, 22979>>, <<36620, 52370>>, <<65519, 62589>>, <<34180, 24017>>,
      <<28584, 32335>>, <<65068, 59104>>, <<41729, 17172>>, <<19976, 4513>>,
      <<63315, 32386>>, <<48442, 62005>>, <<10967, 53947>>, <<60294, 54161>>
   >>

md5_init ==
   << <<26437, 8961>>, <<61389, 43913>>, <<39098, 56574>>, <<4146, 21622>> >>

\* the message padded to a multiple of 64 bytes: 0x80, zeros, and the
\* length in bits as 8 little-endian bytes (a length below 2^32 bits
\* leaves the high four zero)
md5_pad(bytes) ==
   LET n == Len(bytes)
       zeros == (119 - (n % 64)) % 64
       bits == 8 * n
   IN  bytes \o <<128>> \o [k \in 1..zeros |-> 0]
       \o [k \in 1..8 |-> IF k > 4 THEN 0
                          ELSE (bits \div (256 ^ (k - 1))) % 256]

\* word g (0-based) of the block starting at byte offset off, little-endian
md5_word(msg, off, g) ==
   LET b == off + 4 * g
   IN  <<msg[b + 4] * 256 + msg[b + 3], msg[b + 2] * 256 + msg[b + 1]>>

\* round i (0-based) on the state st = <<A, B, C, D>>
md5_round(st, msg, off, i) ==
   LET A == st[1]
       B == st[2]
       C == st[3]
       D == st[4]
       F == CASE i < 16 -> WOr(WAnd(B, C), WAnd(WNot(B), D))
              [] i >= 16 /\ i < 32 -> WOr(WAnd(D, B), WAnd(WNot(D), C))
              [] i >= 32 /\ i < 48 -> WXor(WXor(B, C), D)
              [] OTHER -> WXor(C, WOr(B, WNot(D)))
       g == CASE i < 16 -> i
              [] i >= 16 /\ i < 32 -> (5 * i + 1) % 16
              [] i >= 32 /\ i < 48 -> (3 * i + 5) % 16
              [] OTHER -> (7 * i) % 16
       sum == WAdd(WAdd(WAdd(F, A), md5_K[i + 1]), md5_word(msg, off, g))
   IN  <<D, WAdd(B, Rotl(sum, md5_S[i + 1])), B, C>>

\* rounds lo..hi (0-based) on the state st, one half after the other
RECURSIVE md5_rounds(_, _, _, _, _)
md5_rounds(st, msg, off, lo, hi) ==
   IF lo = hi THEN md5_round(st, msg, off, lo)
   ELSE LET nx == md5_rounds(st, msg, off, lo, (lo + hi) \div 2)
        IN  \* comparing nx evaluates it before the second half starts
            IF nx = <<>> THEN nx
            ELSE md5_rounds(nx, msg, off, ((lo + hi) \div 2) + 1, hi)

RECURSIVE md5_blocks(_, _, _)
md5_blocks(h, msg, off) ==
   IF off >= Len(msg) THEN h
   ELSE LET st == md5_rounds(h, msg, off, 0, 63)
            nx == [k \in 1..4 |-> WAdd(h[k], st[k])]
        IN  IF nx = <<>> THEN nx ELSE md5_blocks(nx, msg, off + 64)

HEX == <<"0", "1", "2", "3", "4", "5", "6", "7",
         "8", "9", "a", "b", "c", "d", "e", "f">>

hex_byte(b) == <<HEX[(b \div 16) + 1], HEX[(b % 16) + 1]>>

\* chr(n).encode(errors): the UTF-8 bytes of the character with code n.
\* A surrogate has none and raises, but for U+DC80..U+DCFF under
\* "surrogateescape", which gives the one byte the character stands for.
utf8(n, errors) ==
   IF n \in 55296..57343
   THEN IF errors = "surrogateescape" /\ n \in 56448..56575
        THEN [error |-> "none", bytes |-> <<n - 56320>>]
        ELSE [error |-> "UnicodeEncodeError"]
   ELSE [error |-> "none",
         bytes |->
            IF n < 128 THEN <<n>>
            ELSE IF n < 2048 THEN <<192 + (n \div 64), 128 + (n % 64)>>
            ELSE IF n < 65536
                 THEN <<224 + (n \div 4096), 128 + ((n \div 64) % 64),
                        128 + (n % 64)>>
                 ELSE <<240 + (n \div 262144), 128 + ((n \div 4096) % 64),
                        128 + ((n \div 64) % 64), 128 + (n % 64)>>]

\* the bytes of two parts of a text, or the exception of the encoding
encoded(a, b) ==
   IF a.error # "none" THEN a
   ELSE IF b.error # "none" THEN b
   ELSE [error |-> "none", bytes |-> a.bytes \o b.bytes]

\* s.encode("utf-8", errors)
RECURSIVE str_encode(_, _)
str_encode(s, errors) ==
   IF s = <<>> THEN [error |-> "none", bytes |-> <<>>]
   ELSE IF Len(s) = 1 THEN utf8(Ord(s[1]), errors)
        ELSE encoded(str_encode(SubSeq(s, 1, Len(s) \div 2), errors),
                     str_encode(SubSeq(s, (Len(s) \div 2) + 1, Len(s)),
                                errors))

\* url.encode(): UnicodeEncodeError on a lone surrogate
encode(s) == str_encode(s, "strict")

\* the first word of the digest, low byte first, in hexadecimal
hexdigest8(bytes) ==
   LET h == md5_blocks(md5_init, md5_pad(bytes), 0)
       a == h[1]
   IN  hex_byte(a[2] % 256) \o hex_byte(a[2] \div 256)
       \o hex_byte(a[1] % 256) \o hex_byte(a[1] \div 256)

\* md5(url.encode()).hexdigest()[:8], or the exception of url.encode()
md5_digest(encoding) ==
   IF encoding.error # "none" THEN [error |-> encoding.error]
   ELSE [error |-> "none", digest |-> hexdigest8(encoding.bytes)]

md5_hexdigest8(url) == md5_digest(encode(url))

(***************************************************************************)
(* The URLs of the model, and the md5 prefix of each, computed once.       *)
(***************************************************************************)
\* "http://a.io/x"
URL_AX == <<"h", "t", "t", "p", ":", "/", "/", "a", ".", "i", "o", "/", "x">>
\* "http://a.io/y"
URL_AY == <<"h", "t", "t", "p", ":", "/", "/", "a", ".", "i", "o", "/", "y">>
\* "https://1-b.io"
URL_B == <<"h", "t", "t", "p", "s", ":", "/", "/", "1", "-", "b", ".", "i", "o">>
\* "http://1"
URL_1 == <<"h", "t", "t", "p", ":", "/", "/", "1">>
\* "http://-1-/"
URL_DASH == <<"h", "t", "t", "p", ":", "/", "/", "-", "1", "-", "/">>
\* "a.io/x"
URL_NOSCHEME == <<"a", ".", "i", "o", "/", "x">>

\* a URL whose host holds a NUL character
URL_NUL == <<"h", "t", "t", "p", ":", "/", "/", "a", "U+0000">>

\* "http://" + "é" * 118 + "@a.io/x": a user name of 118 characters of two
\* bytes each before the host a.io.  The netloc has 241 bytes: with the
\* index, the dashes, the digest and the suffix the file name has 256.
URL_LONG ==
   <<"h", "t", "t", "p", ":", "/", "/">> \o [k \in 1..118 |-> "U+00E9"]
   \o <<"@", "a", ".", "i", "o", "/", "x">>

URLS ==
   {URL_AX, URL_AY, URL_B, URL_1, URL_DASH, URL_NOSCHEME, URL_NUL, URL_LONG}

\* md5_hexdigest8 of every URL of the model, tabulated: md5_hexdigest8(u)
\* evaluates to md5_cache[u] for each u of URLS
md5_cache ==
   (URL_AX :> <<"3", "a", "3", "3", "2", "f", "2", "2">>)
   @@ (URL_AY :> <<"2", "c", "c", "a", "2", "3", "f", "9">>)
   @@ (URL_B :> <<"c", "e", "a", "9", "b", "6", "c", "1">>)
   @@ (URL_1 :> <<"2", "2", "d", "4", "7", "4", "1", "9">>)
   @@ (URL_DASH :> <<"b", "9", "d", "1", "1", "8", "4", "0">>)
   @@ (URL_NOSCHEME :> <<"f", "d", "3", "d", "6", "8", "4", "0">>)
   @@ (URL_NUL :> <<"1", "d", "e", "7", "f", "d", "c", "a">>)
   @@ (URL_LONG :> <<"1", "4", "c", "e", "b", "c", "a", "0">>)

\* the table is what md5_hexdigest8 computes
md5_tabulated ==
   \A u \in URLS :
      md5_hexdigest8(u) = [error |-> "none", digest |-> md5_cache[u]]

\* md5(url.encode()).hexdigest()[:8] of a URL of the model
md5_prefix(url) == md5_cache[url]

(***************************************************************************)
(* generate_output_name: f"{index}-{netloc}-{md5_hash}.txt"                *)
(***************************************************************************)
FILETYPE == <<".", "t", "x", "t">>

\* the name without the index (positions no longer tell names apart)
generate_output_name_noindex(index, url) ==
   urlparse(url).netloc \o <<"-">> \o md5_prefix(url)
   \o <<".", "t", "x", "t">>

generate_output_name(index, url) ==
   LET parsed_url == urlparse(url)
       md5_hash == md5_prefix(url)
       base_name == IntToStr(index) \o <<"-">> \o parsed_url.netloc
                    \o <<"-">> \o md5_hash
   IN  base_name \o <<".", "t", "x", "t">>

(***************************************************************************)
(* re.sub(CLEAN, "", text) with CLEAN = re.compile("<.*?>"): from the left, *)
(* a "<" and the shortest run up to a ">" are deleted; "." matches no line *)
(* break, so a "<" whose first following ">" lies beyond a "\n" stays.     *)
(***************************************************************************)
\* where the match of CLEAN that starts at s[1] ends, 0 when there is none
CLEAN(s) ==
   LET close == Find(s, ">", 2)
   IN  IF s # <<>> /\ s[1] = "<" /\ close > 0
          /\ \A k \in 2..(close - 1) : s[k] # "\n"
       THEN close ELSE 0

RECURSIVE re_sub_CLEAN(_)
re_sub_CLEAN(s) ==
   IF s = <<>> THEN <<>>
   ELSE IF CLEAN(s) > 0 THEN re_sub_CLEAN(From(s, CLEAN(s) + 1))
        ELSE <<Head(s)>> \o re_sub_CLEAN(Tail(s))

(***************************************************************************)
(* html.unescape: every match of                                           *)
(*    &(#[0-9]+;?|#[xX][0-9a-fA-F]+;?|[^\t\n\f <&#;]{1,32};?)              *)
(* is replaced as _replace_charref says.                                   *)
(***************************************************************************)
\* the items of html.entities.html5, as pairs <<name, value>>: the name a
\* string, the value a sequence of characters
html5_items ==
   <<
      <<"AElig", <<"U+00C6">>>>,
      <<"AElig;", <<"U+00C6">>>>,
      <<"AMP", <<"&">>>>,
      <<"AMP;", <<"&">>>>,
      <<"Aacute", <<"U+00C1">>>>,
      <<"Aacute;", <<"U+00C1">>>>,
      <<"Abreve;", <<"U+0102">>>>,
      <<"Acirc", <<"U+00C2">>>>,
      <<"Acirc;", <<"U+00C2">>>>,
      <<"Acy;", <<"U+0410">>>>,
      <<"Afr;", <<"U+1D504">>>>,
      <<"Agrave", <<"U+00C0">>>>,
      <<"Agrave;", <<"U+00C0">>>>,
      <<"Alpha;", <<"U+0391">>>>,
      <<"Amacr;", <<"U+0100">>>>,
      <<"And;", <<"U+2A53">>>>,
      <<"Aogon;", <<"U+0104">>>>,
      <<"Aopf;", <<"U+1D538">>>>,
      <<"ApplyFunction;", <<"U+2061">>>>,
      <<"Aring", <<"U+00C5">>>>,
      <<"Aring;", <<"U+00C5">>>>,
      <<"Ascr;", <<"U+1D49C">>>>,
      <<"Assign;", <<"U+2254">>>>,
      <<"Atilde", <<"U+00C3">>>>,
      <<"Atilde;", <<"U+00C3">>>>,
      <<"Auml", <<"U+00C4">>>>,
      <<"Auml;", <<"U+00C4">>>>,
      <<"Backslash;", <<"U+2216">>>>,
      <<"Barv;", <<"U+2AE7">>>>,
      <<"Barwed;", <<"U+2306">>>>,
      <<"Bcy;", <<"U+0411">>>>,
      <<"Because;", <<"U+2235">>>>,
      <<"Bernoullis;", <<"U+212C">>>>,
      <<"Beta;", <<"U+0392">>>>,
      <<"Bfr;", <<"U+1D505">>>>,
      <<"Bopf;", <<"U+1D539">>>>,
      <<"Breve;", <<"U+02D8">>>>,
      <<"Bscr;", <<"U+212C">>>>,
      <<"Bumpeq;", <<"U+224E">>>>,
      <<"CHcy;", <<"U+0427">>>>,
      <<"COPY", <<"U+00A9">>>>,
      <<"COPY;", <<"U+00A9">>>>,
      <<"Cacute;", <<"U+0106">>>>,
      <<"Cap;", <<"U+22D2">>>>,
      <<"CapitalDifferentialD;", <<"U+2145">>>>,
      <<"Cayleys;", <<"U+212D">>>>,
      <<"Ccaron;", <<"U+010C">>>>,
      <<"Ccedil", <<"U+00C7">>>>,
      <<"Ccedil;", <<"U+00C7">>>>,
      <<"Ccirc;", <<"U+0108">>>>,
      <<"Cconint;", <<"U+2230">>>>,
      <<"Cdot;", <<"U+010A">>>>,
      <<"Cedilla;", <<"U+00B8">>>>,
      <<"CenterDot;", <<"U+00B7">>>>,
      <<"Cfr;", <<"U+212D">>>>,
      <<"Chi;", <<"U+03A7">>>>,
      <<"CircleDot;", <<"U+2299">>>>,
      <<"CircleMinus;", <<"U+2296">>>>,
      <<"CirclePlus;", <<"U+2295">>>>,
      <<"CircleTimes;", <<"U+2297">>>>,
      <<"ClockwiseContourIntegral;", <<"U+2232">>>>,
      <<"CloseCurlyDoubleQuote;", <<"U+201D">>>>,
      <<"CloseCurlyQuote;", <<"U+2019">>>>,
      <<"Colon;", <<"U+2237">>>>,
      <<"Colone;", <<"U+2A74">>>>,
      <<"Congruent;", <<"U+2261">>>>,
      <<"Conint;", <<"U+222F">>>>,
      <<"ContourIntegral;", <<"U+222E">>>>,
      <<"Copf;", <<"U+2102">>>>,
      <<"Coproduct;", <<"U+2210">>>>,
      <<"CounterClockwiseContourIntegral;", <<"U+2233">>>>,
      <<"Cross;", <<"U+2A2F">>>>,
      <<"Cscr;", <<"U+1D49E">>>>,
      <<"Cup;", <<"U+22D3">>>>,
      <<"CupCap;", <<"U+224D">>>>,
      <<"DD;", <<"U+2145">>>>,
      <<"DDotrahd;", <<"U+2911">>>>,
      <<"DJcy;", <<"U+0402">>>>,
      <<"DScy;", <<"U+0405">>>>,
      <<"DZcy;", <<"U+040F">>>>,
      <<"Dagger;", <<"U+2021">>>>,
      <<"Darr;", <<"U+21A1">>>>,
      <<"Dashv;", <<"U+2AE4">>>>,
      <<"Dcaron;", <<"U+010E">>>>,
      <<"Dcy;", <<"U+0414">>>>,
      <<"Del;", <<"U+2207">>>>,
      <<"Delta;", <<"U+0394">>>>,
      <<"Dfr;", <<"U+1D507">>>>,
      <<"DiacriticalAcute;", <<"U+00B4">>>>,
      <<"DiacriticalDot;", <<"U+02D9">>>>,
      <<"DiacriticalDoubleAcute;", <<"U+02DD">>>>,
      <<"DiacriticalGrave;", <<"U+0060">>>>,
      <<"DiacriticalTilde;", <<"U+02DC">>>>,
      <<"Diamond;", <<"U+22C4">>>>,
      <<"DifferentialD;", <<"U+2146">>>>,
      <<"Dopf;", <<"U+1D53B">>>>,
      <<"Dot;", <<"U+00A8">>>>,
      <<"DotDot;", <<"U+20DC">>>>,
      <<"DotEqual;", <<"U+2250">>>>,
      <<"DoubleContourIntegral;", <<"U+222F">>>>,
      <<"DoubleDot;", <<"U+00A8">>>>,
      <<"DoubleDownArrow;", <<"U+21D3">>>>,
      <<"DoubleLeftArrow;", <<"U+21D0">>>>,
      <<"DoubleLeftRightArrow;", <<"U+21D4">>>>,
      <<"DoubleLeftTee;", <<"U+2AE4">>>>,
      <<"DoubleLongLeftArrow;", <<"U+27F8">>>>,
      <<"DoubleLongLeftRightArrow;", <<"U+27FA">>>>,
      <<"DoubleLongRightArrow;", <<"U+27F9">>>>,
      <<"DoubleRightArrow;", <<"U+21D2">>>>,
      <<"DoubleRightTee;", <<"U+22A8">>>>,
      <<"DoubleUpArrow;", <<"U+21D1">>>>,
      <<"DoubleUpDownArrow;", <<"U+21D5">>>>,
      <<"DoubleVerticalBar;", <<"U+2225">>>>,
      <<"DownArrow;", <<"U+2193">>>>,
      <<"DownArrowBar;", <<"U+2913">>>>,
      <<"DownArrowUpArrow;", <<"U+21F5">>>>,
      <<"DownBreve;", <<"U+0311">>>>,
      <<"DownLeftRightVector;", <<"U+2950">>>>,
      <<"DownLeftTeeVector;", <<"U+295E">>>>,
      <<"DownLeftVector;", <<"U+21BD">>>>,
      <<"DownLeftVectorBar;", <<"U+2956">>>>,
      <<"DownRightTeeVector;", <<"U+295F">>>>,
      <<"DownRightVector;", <<"U+21C1">>>>,
      <<"DownRightVectorBar;", <<"U+2957">>>>,
      <<"DownTee;", <<"U+22A4">>>>,
      <<"DownTeeArrow;", <<"U+21A7">>>>,
      <<"Downarrow;", <<"U+21D3">>>>,
      <<"Dscr;", <<"U+1D49F">>>>,
      <<"Dstrok;", <<"U+0110">>>>,
      <<"ENG;", <<"U+014A">>>>,
      <<"ETH", <<"U+00D0">>>>,
      <<"ETH;", <<"U+00D0">>>>,
      <<"Eacute", <<"U+00C9">>>>,
      <<"Eacute;", <<"U+00C9">>>>,
      <<"Ecaron;", <<"U+011A">>>>,
      <<"Ecirc", <<"U+00CA">>>>,
      <<"Ecirc;", <<"U+00CA">>>>,
      <<"Ecy;", <<"U+042D">>>>,
      <<"Edot;", <<"U+0116">>>>,
      <<"Efr;", <<"U+1D508">>>>,
      <<"Egrave", <<"U+00C8">>>>,
      <<"Egrave;", <<"U+00C8">>>>,
      <<"Element;", <<"U+2208">>>>,
      <<"Emacr;", <<"U+0112">>>>,
      <<"EmptySmallSquare;", <<"U+25FB">>>>,
      <<"EmptyVerySmallSquare;", <<"U+25AB">>>>,
      <<"Eogon;", <<"U+0118">>>>,
      <<"Eopf;", <<"U+1D53C">>>>,
      <<"Epsilon;", <<"U+0395">>>>,
      <<"Equal;", <<"U+2A75">>>>,
      <<"EqualTilde;", <<"U+2242">>>>,
      <<"Equilibrium;", <<"U+21CC">>>>,
      <<"Escr;", <<"U+2130">>>>,
      <<"Esim;", <<"U+2A73">>>>,
      <<"Eta;", <<"U+0397">>>>,
      <<"Euml", <<"U+00CB">>>>,
      <<"Euml;", <<"U+00CB">>>>,
      <<"Exists;", <<"U+2203">>>>,
      <<"ExponentialE;", <<"U+2147">>>>,
      <<"Fcy;", <<"U+0424">>>>,
      <<"Ffr;", <<"U+1D509">>>>,
      <<"FilledSmallSquare;", <<"U+25FC">>>>,
      <<"FilledVerySmallSquare;", <<"U+25AA">>>>,
      <<"Fopf;", <<"U+1D53D">>>>,
      <<"ForAll;", <<"U+2200">>>>,
      <<"Fouriertrf;", <<"U+2131">>>>,
      <<"Fscr;", <<"U+2131">>>>,
      <<"GJcy;", <<"U+0403">>>>,
      <<"GT", <<">">>>>,
      <<"GT;", <<">">>>>,
      <<"Gamma;", <<"U+0393">>>>,
      <<"Gammad;", <<"U+03DC">>>>,
      <<"Gbreve;", <<"U+011E">>>>,
      <<"Gcedil;", <<"U+0122">>>>,
      <<"Gcirc;", <<"U+011C">>>>,
      <<"Gcy;", <<"U+0413">>>>,
      <<"Gdot;", <<"U+0120">>>>,
      <<"Gfr;", <<"U+1D50A">>>>,
      <<"Gg;", <<"U+22D9">>>>,
      <<"Gopf;", <<"U+1D53E">>>>,
      <<"GreaterEqual;", <<"U+2265">>>>,
      <<"GreaterEqualLess;", <<"U+22DB">>>>,
      <<"GreaterFullEqual;", <<"U+2267">>>>,
      <<"GreaterGreater;", <<"U+2AA2">>>>,
      <<"GreaterLess;", <<"U+2277">>>>,
      <<"GreaterSlantEqual;", <<"U+2A7E">>>>,
      <<"GreaterTilde;", <<"U+2273">>>>,
      <<"Gscr;", <<"U+1D4A2">>>>,
      <<"Gt;", <<"U+226B">>>>,
      <<"HARDcy;", <<"U+042A">>>>,
      <<"Hacek;", <<"U+02C7">>>>,
      <<"Hat;", <<"^">>>>,
      <<"Hcirc;", <<"U+0124">>>>,
      <<"Hfr;", <<"U+210C">>>>,
      <<"HilbertSpace;", <<"U+210B">>>>,
      <<"Hopf;", <<"U+210D">>>>,
      <<"HorizontalLine;", <<"U+2500">>>>,
      <<"Hscr;", <<"U+210B">>>>,
      <<"Hstrok;", <<"U+0126">>>>,
      <<"HumpDownHump;", <<"U+224E">>>>,
      <<"HumpEqual;", <<"U+224F">>>>,
      <<"IEcy;", <<"U+0415">>>>,
      <<"IJlig;", <<"U+0132">>>>,
      <<"IOcy;", <<"U+0401">>>>,
      <<"Iacute", <<"U+00CD">>>>,
      <<"Iacute;", <<"U+00CD">>>>,
      <<"Icirc", <<"U+00CE">>>>,
      <<"Icirc;", <<"U+00CE">>>>,
      <<"Icy;", <<"U+0418">>>>,
      <<"Idot;", <<"U+0130">>>>,
      <<"Ifr;", <<"U+2111">>>>,
      <<"Igrave", <<"U+00CC">>>>,
      <<"Igrave;", <<"U+00CC">>>>,
      <<"Im;", <<"U+2111">>>>,
      <<"Imacr;", <<"U+012A">>>>,
      <<"ImaginaryI;", <<"U+2148">>>>,
      <<"Implies;", <<"U+21D2">>>>,
      <<"Int;", <<"U+222C">>>>,
      <<"Integral;", <<"U+222B">>>>,
      <<"Intersection;", <<"U+22C2">>>>,
      <<"InvisibleComma;", <<"U+2063">>>>,
      <<"InvisibleTimes;", <<"U+2062">>>>,
      <<"Iogon;", <<"U+012E">>>>,
      <<"Iopf;", <<"U+1D540">>>>,
      <<"Iota;", <<"U+0399">>>>,
      <<"Iscr;", <<"U+2110">>>>,
      <<"Itilde;", <<"U+0128">>>>,
      <<"Iukcy;", <<"U+0406">>>>,
      <<"Iuml", <<"U+00CF">>>>,
      <<"Iuml;", <<"U+00CF">>>>,
      <<"Jcirc;", <<"U+0134">>>>,
      <<"Jcy;", <<"U+0419">>>>,
      <<"Jfr;", <<"U+1D50D">>>>,
      <<"Jopf;", <<"U+1D541">>>>,
      <<"Jscr;", <<"U+1D4A5">>>>,
      <<"Jsercy;", <<"U+0408">>>>,
      <<"Jukcy;", <<"U+0404">>>>,
      <<"KHcy;", <<"U+0425">>>>,
      <<"KJcy;", <<"U+040C">>>>,
      <<"Kappa;", <<"U+039A">>>>,
      <<"Kcedil;", <<"U+0136">>>>,
      <<"Kcy;", <<"U+041A">>>>,
      <<"Kfr;", <<"U+1D50E">>>>,
      <<"Kopf;", <<"U+1D542">>>>,
      <<"Kscr;", <<"U+1D4A6">>>>,
      <<"LJcy;", <<"U+0409">>>>,
      <<"LT", <<"<">>>>,
      <<"LT;", <<"<">>>>,
      <<"Lacute;", <<"U+0139">>>>,
      <<"Lambda;", <<"U+039B">>>>,
      <<"Lang;", <<"U+27EA">>>>,
      <<"Laplacetrf;", <<"U+2112">>>>,
      <<"Larr;", <<"U+219E">>>>,
      <<"Lcaron;", <<"U+013D">>>>,
      <<"Lcedil;", <<"U+013B">>>>,
      <<"Lcy;", <<"U+041B">>>>,
      <<"LeftAngleBracket;", <<"U+27E8">>>>,
      <<"LeftArrow;", <<"U+2190">>>>,
      <<"LeftArrowBar;", <<"U+21E4">>>>,
      <<"LeftArrowRightArrow;", <<"U+21C6">>>>,
      <<"LeftCeiling;", <<"U+2308">>>>,
      <<"LeftDoubleBracket;", <<"U+27E6">>>>,
      <<"LeftDownTeeVector;", <<"U+2961">>>>,
      <<"LeftDownVector;", <<"U+21C3">>>>,
      <<"LeftDownVectorBar;", <<"U+2959">>>>,
      <<"LeftFloor;", <<"U+230A">>>>,
      <<"LeftRightArrow;", <<"U+2194">>>>,
      <<"LeftRightVector;", <<"U+294E">>>>,
      <<"LeftTee;", <<"U+22A3">>>>,
      <<"LeftTeeArrow;", <<"U+21A4">>>>,
      <<"LeftTeeVector;", <<"U+295A">>>>,
      <<"LeftTriangle;", <<"U+22B2">>>>,
      <<"LeftTriangleBar;", <<"U+29CF">>>>,
      <<"LeftTriangleEqual;", <<"U+22B4">>>>,
      <<"LeftUpDownVector;", <<"U+2951">>>>,
      <<"LeftUpTeeVector;", <<"U+2960">>>>,
      <<"LeftUpVector;", <<"U+21BF">>>>,
      <<"LeftUpVectorBar;", <<"U+2958">>>>,
      <<"LeftVector;", <<"U+21BC">>>>,
      <<"LeftVectorBar;", <<"U+2952">>>>,
      <<"Leftarrow;", <<"U+21D0">>>>,
      <<"Leftrightarrow;", <<"U+21D4">>>>,
      <<"LessEqualGreater;", <<"U+22DA">>>>,
      <<"LessFullEqual;", <<"U+2266">>>>,
      <<"LessGreater;", <<"U+2276">>>>,
      <<"LessLess;", <<"U+2AA1">>>>,
      <<"LessSlantEqual;", <<"U+2A7D">>>>,
      <<"LessTilde;", <<"U+2272">>>>,
      <<"Lfr;", <<"U+1D50F">>>>,
      <<"Ll;", <<"U+22D8">>>>,
      <<"Lleftarrow;", <<"U+21DA">>>>,
      <<"Lmidot;", <<"U+013F">>>>,
      <<"LongLeftArrow;", <<"U+27F5">>>>,
      <<"LongLeftRightArrow;", <<"U+27F7">>>>,
      <<"LongRightArrow;", <<"U+27F6">>>>,
      <<"Longleftarrow;", <<"U+27F8">>>>,
      <<"Longleftrightarrow;", <<"U+27FA">>>>,
      <<"Longrightarrow;", <<"U+27F9">>>>,
      <<"Lopf;", <<"U+1D543">>>>,
      <<"LowerLeftArrow;", <<"U+2199">>>>,
      <<"LowerRightArrow;", <<"U+2198">>>>,
      <<"Lscr;", <<"U+2112">>>>,
      <<"Lsh;", <<"U+21B0">>>>,
      <<"Lstrok;", <<"U+0141">>>>,
      <<"Lt;", <<"U+226A">>>>,
      <<"Map;", <<"U+2905">>>>,
      <<"Mcy;", <<"U+041C">>>>,
      <<"MediumSpace;", <<"U+205F">>>>,
      <<"Mellintrf;", <<"U+2133">>>>,
      <<"Mfr;", <<"U+1D510">>>>,
      <<"MinusPlus;", <<"U+2213">>>>,
      <<"Mopf;", <<"U+1D544">>>>,
      <<"Mscr;", <<"U+2133">>>>,
      <<"Mu;", <<"U+039C">>>>,
      <<"NJcy;", <<"U+040A">>>>,
      <<"Nacute;", <<"U+0143">>>>,
      <<"Ncaron;", <<"U+0147">>>>,
      <<"Ncedil;", <<"U+0145">>>>,
      <<"Ncy;", <<"U+041D">>>>,
      <<"NegativeMediumSpace;", <<"U+200B">>>>,
      <<"NegativeThickSpace;", <<"U+200B">>>>,
      <<"NegativeThinSpace;", <<"U+200B">>>>,
      <<"NegativeVeryThinSpace;", <<"U+200B">>>>,
      <<"NestedGreaterGreater;", <<"U+226B">>>>,
      <<"NestedLessLess;", <<"U+226A">>>>,
      <<"NewLine;", <<"\n">>>>,
      <<"Nfr;", <<"U+1D511">>>>,
      <<"NoBreak;", <<"U+2060">>>>,
      <<"NonBreakingSpace;", <<"U+00A0">>>>,
      <<"Nopf;", <<"U+2115">>>>,
      <<"Not;", <<"U+2AEC">>>>,
      <<"NotCongruent;", <<"U+2262">>>>,
      <<"NotCupCap;", <<"U+226D">>>>,
      <<"NotDoubleVerticalBar;", <<"U+2226">>>>,
      <<"NotElement;", <<"U+2209">>>>,
      <<"NotEqual;", <<"U+2260">>>>,
      <<"NotEqualTilde;", <<"U+2242", "U+0338">>>>,
      <<"NotExists;", <<"U+2204">>>>,
      <<"NotGreater;", <<"U+226F">>>>,
      <<"NotGreaterEqual;", <<"U+2271">>>>,
      <<"NotGreaterFullEqual;", <<"U+2267", "U+0338">>>>,
      <<"NotGreaterGreater;", <<"U+226B", "U+0338">>>>,
      <<"NotGreaterLess;", <<"U+2279">>>>,
      <<"NotGreaterSlantEqual;", <<"U+2A7E", "U+0338">>>>,
      <<"NotGreaterTilde;", <<"U+2275">>>>,
      <<"NotHumpDownHump;", <<"U+224E", "U+0338">>>>,
      <<"NotHumpEqual;", <<"U+224F", "U+0338">>>>,
      <<"NotLeftTriangle;", <<"U+22EA">>>>,
      <<"NotLeftTriangleBar;", <<"U+29CF", "U+0338">>>>,
      <<"NotLeftTriangleEqual;", <<"U+22EC">>>>,
      <<"NotLess;", <<"U+226E">>>>,
      <<"NotLessEqual;", <<"U+2270">>>>,
      <<"NotLessGreater;", <<"U+2278">>>>,
      <<"NotLessLess;", <<"U+226A", "U+0338">>>>,
      <<"NotLessSlantEqual;", <<"U+2A7D", "U+0338">>>>,
      <<"NotLessTilde;", <<"U+2274">>>>,
      <<"NotNestedGreaterGreater;", <<"U+2AA2", "U+0338">>>>,
      <<"NotNestedLessLess;", <<"U+2AA1", "U+0338">>>>,
      <<"NotPrecedes;", <<"U+2280">>>>,
      <<"NotPrecedesEqual;", <<"U+2AAF", "U+0338">>>>,
      <<"NotPrecedesSlantEqual;", <<"U+22E0">>>>,
      <<"NotReverseElement;", <<"U+220C">>>>,
      <<"NotRightTriangle;", <<"U+22EB">>>>,
      <<"NotRightTriangleBar;", <<"U+29D0", "U+0338">>>>,
      <<"NotRightTriangleEqual;", <<"U+22ED">>>>,
      <<"NotSquareSubset;", <<"U+228F", "U+0338">>>>,
      <<"NotSquareSubsetEqual;", <<"U+22E2">>>>,
      <<"NotSquareSuperset;", <<"U+2290", "U+0338">>>>,
      <<"NotSquareSupersetEqual;", <<"U+22E3">>>>,
      <<"NotSubset;", <<"U+2282", "U+20D2">>>>,
      <<"NotSubsetEqual;", <<"U+2288">>>>,
      <<"NotSucceeds;", <<"U+2281">>>>,
      <<"NotSucceedsEqual;", <<"U+2AB0", "U+0338">>>>,
      <<"NotSucceedsSlantEqual;", <<"U+22E1">>>>,
      <<"NotSucceedsTilde;", <<"U+227F", "U+0338">>>>,
      <<"NotSuperset;", <<"U+2283", "U+20D2">>>>,
      <<"NotSupersetEqual;", <<"U+2289">>>>,
      <<"NotTilde;", <<"U+2241">>>>,
      <<"NotTildeEqual;", <<"U+2244">>>>,
      <<"NotTildeFullEqual;", <<"U+2247">>>>,
      <<"NotTildeTilde;", <<"U+2249">>>>,
      <<"NotVerticalBar;", <<"U+2224">>>>,
      <<"Nscr;", <<"U+1D4A9">>>>,
      <<"Ntilde", <<"U+00D1">>>>,
      <<"Ntilde;", <<"U+00D1">>>>,
      <<"Nu;", <<"U+039D">>>>,
      <<"OElig;", <<"U+0152">>>>,
      <<"Oacute", <<"U+00D3">>>>,
      <<"Oacute;", <<"U+00D3">>>>,
      <<"Ocirc", <<"U+00D4">>>>,
      <<"Ocirc;", <<"U+00D4">>>>,
      <<"Ocy;", <<"U+041E">>>>,
      <<"Odblac;", <<"U+0150">>>>,
      <<"Ofr;", <<"U+1D512">>>>,
      <<"Ograve", <<"U+00D2">>>>,
      <<"Ograve;", <<"U+00D2">>>>,
      <<"Omacr;", <<"U+014C">>>>,
      <<"Omega;", <<"U+03A9">>>>,
      <<"Omicron;", <<"U+039F">>>>,
      <<"Oopf;", <<"U+1D546">>>>,
      <<"OpenCurlyDoubleQuote;", <<"U+201C">>>>,
      <<"OpenCurlyQuote;", <<"U+2018">>>>,
      <<"Or;", <<"U+2A54">>>>,
      <<"Oscr;", <<"U+1D4AA">>>>,
      <<"Oslash", <<"U+00D8">>>>,
      <<"Oslash;", <<"U+00D8">>>>,
      <<"Otilde", <<"U+00D5">>>>,
      <<"Otilde;", <<"U+00D5">>>>,
      <<"Otimes;", <<"U+2A37">>>>,
      <<"Ouml", <<"U+00D6">>>>,
      <<"Ouml;", <<"U+00D6">>>>,
      <<"OverBar;", <<"U+203E">>>>,
      <<"OverBrace;", <<"U+23DE">>>>,
      <<"OverBracket;", <<"U+23B4">>>>,
      <<"OverParenthesis;", <<"U+23DC">>>>,
      <<"PartialD;", <<"U+2202">>>>,
      <<"Pcy;", <<"U+041F">>>>,
      <<"Pfr;", <<"U+1D513">>>>,
      <<"Phi;", <<"U+03A6">>>>,
      <<"Pi;", <<"U+03A0">>>>,
      <<"PlusMinus;", <<"U+00B1">>>>,
      <<"Poincareplane;", <<"U+210C">>>>,
      <<"Popf;", <<"U+2119">>>>,
      <<"Pr;", <<"U+2ABB">>>>,
      <<"Precedes;", <<"U+227A">>>>,
      <<"PrecedesEqual;", <<"U+2AAF">>>>,
      <<"PrecedesSlantEqual;", <<"U+227C">>>>,
      <<"PrecedesTilde;", <<"U+227E">>>>,
      <<"Prime;", <<"U+2033">>>>,
      <<"Product;", <<"U+220F">>>>,
      <<"Proportion;", <<"U+2237">>>>,
      <<"Proportional;", <<"U+221D">>>>,
      <<"Pscr;", <<"U+1D4AB">>>>,
      <<"Psi;", <<"U+03A8">>>>,
      <<"QUOT", <<"\"">>>>,
      <<"QUOT;", <<"\"">>>>,
      <<"Qfr;", <<"U+1D514">>>>,
      <<"Qopf;", <<"U+211A">>>>,
      <<"Qscr;", <<"U+1D4AC">>>>,
      <<"RBarr;", <<"U+2910">>>>,
      <<"REG", <<"U+00AE">>>>,
      <<"REG;", <<"U+00AE">>>>,
      <<"Racute;", <<"U+0154">>>>,
      <<"Rang;", <<"U+27EB">>>>,
      <<"Rarr;", <<"U+21A0">>>>,
      <<"Rarrtl;", <<"U+2916">>>>,
      <<"Rcaron;", <<"U+0158">>>>,
      <<"Rcedil;", <<"U+0156">>>>,
      <<"Rcy;", <<"U+0420">>>>,
      <<"Re;", <<"U+211C">>>>,
      <<"ReverseElement;", <<"U+220B">>>>,
      <<"ReverseEquilibrium;", <<"U+21CB">>>>,
      <<"ReverseUpEquilibrium;", <<"U+296F">>>>,
      <<"Rfr;", <<"U+211C">>>>,
      <<"Rho;", <<"U+03A1">>>>,
      <<"RightAngleBracket;", <<"U+27E9">>>>,
      <<"RightArrow;", <<"U+2192">>>>,
      <<"RightArrowBar;", <<"U+21E5">>>>,
      <<"RightArrowLeftArrow;", <<"U+21C4">>>>,
      <<"RightCeiling;", <<"U+2309">>>>,
      <<"RightDoubleBracket;", <<"U+27E7">>>>,
      <<"RightDownTeeVector;", <<"U+295D">>>>,
      <<"RightDownVector;", <<"U+21C2">>>>,
      <<"RightDownVectorBar;", <<"U+2955">>>>,
      <<"RightFloor;", <<"U+230B">>>>,
      <<"RightTee;", <<"U+22A2">>>>,
      <<"RightTeeArrow;", <<"U+21A6">>>>,
      <<"RightTeeVector;", <<"U+295B">>>>,
      <<"RightTriangle;", <<"U+22B3">>>>,
      <<"RightTriangleBar;", <<"U+29D0">>>>,
      <<"RightTriangleEqual;", <<"U+22B5">>>>,
      <<"RightUpDownVector;", <<"U+294F">>>>,
      <<"RightUpTeeVector;", <<"U+295C">>>>,
      <<"RightUpVector;", <<"U+21BE">>>>,
      <<"RightUpVectorBar;", <<"U+2954">>>>,
      <<"RightVector;", <<"U+21C0">>>>,
      <<"RightVectorBar;", <<"U+2953">>>>,
      <<"Rightarrow;", <<"U+21D2">>>>,
      <<"Ropf;", <<"U+211D">>>>,
      <<"RoundImplies;", <<"U+2970">>>>,
      <<"Rrightarrow;", <<"U+21DB">>>>,
      <<"Rscr;", <<"U+211B">>>>,
      <<"Rsh;", <<"U+21B1">>>>,
      <<"RuleDelayed;", <<"U+29F4">>>>,
      <<"SHCHcy;", <<"U+0429">>>>,
      <<"SHcy;", <<"U+0428">>>>,
      <<"SOFTcy;", <<"U+042C">>>>,
      <<"Sacute;", <<"U+015A">>>>,
      <<"Sc;", <<"U+2ABC">>>>,
      <<"Scaron;", <<"U+0160">>>>,
      <<"Scedil;", <<"U+015E">>>>,
      <<"Scirc;", <<"U+015C">>>>,
      <<"Scy;", <<"U+0421">>>>,
      <<"Sfr;", <<"U+1D516">>>>,
      <<"ShortDownArrow;", <<"U+2193">>>>,
      <<"ShortLeftArrow;", <<"U+2190">>>>,
      <<"ShortRightArrow;", <<"U+2192">>>>,
      <<"ShortUpArrow;", <<"U+2191">>>>,
      <<"Sigma;", <<"U+03A3">>>>,
      <<"SmallCircle;", <<"U+2218">>>>,
      <<"Sopf;", <<"U+1D54A">>>>,
      <<"Sqrt;", <<"U+221A">>>>,
      <<"Square;", <<"U+25A1">>>>,
      <<"SquareIntersection;", <<"U+2293">>>>,
      <<"SquareSubset;", <<"U+228F">>>>,
      <<"SquareSubsetEqual;", <<"U+2291">>>>,
      <<"SquareSuperset;", <<"U+2290">>>>,
      <<"SquareSupersetEqual;", <<"U+2292">>>>,
      <<"SquareUnion;", <<"U+2294">>>>,
      <<"Sscr;", <<"U+1D4AE">>>>,
      <<"Star;", <<"U+22C6">>>>,
      <<"Sub;", <<"U+22D0">>>>,
      <<"Subset;", <<"U+22D0">>>>,
      <<"SubsetEqual;", <<"U+2286">>>>,
      <<"Succeeds;", <<"U+227B">>>>,
      <<"SucceedsEqual;", <<"U+2AB0">>>>,
      <<"SucceedsSlantEqual;", <<"U+227D">>>>,
      <<"SucceedsTilde;", <<"U+227F">>>>,
      <<"SuchThat;", <<"U+220B">>>>,
      <<"Sum;", <<"U+2211">>>>,
      <<"Sup;", <<"U+22D1">>>>,
      <<"Superset;", <<"U+2283">>>>,
      <<"SupersetEqual;", <<"U+2287">>>>,
      <<"Supset;", <<"U+22D1">>>>,
      <<"THORN", <<"U+00DE">>>>,
      <<"THORN;", <<"U+00DE">>>>,
      <<"TRADE;", <<"U+2122">>>>,
      <<"TSHcy;", <<"U+040B">>>>,
      <<"TScy;", <<"U+0426">>>>,
      <<"Tab;", <<"\t">>>>,
      <<"Tau;", <<"U+03A4">>>>,
      <<"Tcaron;", <<"U+0164">>>>,
      <<"Tcedil;", <<"U+0162">>>>,
      <<"Tcy;", <<"U+0422">>>>,
      <<"Tfr;", <<"U+1D517">>>>,
      <<"Therefore;", <<"U+2234">>>>,
      <<"Theta;", <<"U+0398">>>>,
      <<"ThickSpace;", <<"U+205F", "U+200A">>>>,
      <<"ThinSpace;", <<"U+2009">>>>,
      <<"Tilde;", <<"U+223C">>>>,
      <<"TildeEqual;", <<"U+2243">>>>,
      <<"TildeFullEqual;", <<"U+2245">>>>,
      <<"TildeTilde;", <<"U+2248">>>>,
      <<"Topf;", <<"U+1D54B">>>>,
      <<"TripleDot;", <<"U+20DB">>>>,
      <<"Tscr;", <<"U+1D4AF">>>>,
      <<"Tstrok;", <<"U+0166">>>>,
      <<"Uacute", <<"U+00DA">>>>,
      <<"Uacute;", <<"U+00DA">>>>,
      <<"Uarr;", <<"U+219F">>>>,
      <<"Uarrocir;", <<"U+2949">>>>,
      <<"Ubrcy;", <<"U+040E">>>>,
      <<"Ubreve;", <<"U+016C">>>>,
      <<"Ucirc", <<"U+00DB">>>>,
      <<"Ucirc;", <<"U+00DB">>>>,
      <<"Ucy;", <<"U+0423">>>>,
      <<"Udblac;", <<"U+0170">>>>,
      <<"Ufr;", <<"U+1D518">>>>,
      <<"Ugrave", <<"U+00D9">>>>,
      <<"Ugrave;", <<"U+00D9">>>>,
      <<"Umacr;", <<"U+016A">>>>,
      <<"UnderBar;", <<"_">>>>,
      <<"UnderBrace;", <<"U+23DF">>>>,
      <<"UnderBracket;", <<"U+23B5">>>>,
      <<"UnderParenthesis;", <<"U+23DD">>>>,
      <<"Union;", <<"U+22C3">>>>,
      <<"UnionPlus;", <<"U+228E">>>>,
      <<"Uogon;", <<"U+0172">>>>,
      <<"Uopf;", <<"U+1D54C">>>>,
      <<"UpArrow;", <<"U+2191">>>>,
      <<"UpArrowBar;", <<"U+2912">>>>,
      <<"UpArrowDownArrow;", <<"U+21C5">>>>,
      <<"UpDownArrow;", <<"U+2195">>>>,
      <<"UpEquilibrium;", <<"U+296E">>>>,
      <<"UpTee;", <<"U+22A5">>>>,
      <<"UpTeeArrow;", <<"U+21A5">>>>,
      <<"Uparrow;", <<"U+21D1">>>>,
      <<"Updownarrow;", <<"U+21D5">>>>,
      <<"UpperLeftArrow;", <<"U+2196">>>>,
      <<"UpperRightArrow;", <<"U+2197">>>>,
      <<"Upsi;", <<"U+03D2">>>>,
      <<"Upsilon;", <<"U+03A5">>>>,
      <<"Uring;", <<"U+016E">>>>,
      <<"Uscr;", <<"U+1D4B0">>>>,
      <<"Utilde;", <<"U+0168">>>>,
      <<"Uuml", <<"U+00DC">>>>,
      <<"Uuml;", <<"U+00DC">>>>,
      <<"VDash;", <<"U+22AB">>>>,
      <<"Vbar;", <<"U+2AEB">>>>,
      <<"Vcy;", <<"U+0412">>>>,
      <<"Vdash;", <<"U+22A9">>>>,
      <<"Vdashl;", <<"U+2AE6">>>>,
      <<"Vee;", <<"U+22C1">>>>,
      <<"Verbar;", <<"U+2016">>>>,
      <<"Vert;", <<"U+2016">>>>,
      <<"VerticalBar;", <<"U+2223">>>>,
      <<"VerticalLine;", <<"|">>>>,
      <<"VerticalSeparator;", <<"U+2758">>>>,
      <<"VerticalTilde;", <<"U+2240">>>>,
      <<"VeryThinSpace;", <<"U+200A">>>>,
      <<"Vfr;", <<"U+1D519">>>>,
      <<"Vopf;", <<"U+1D54D">>>>,
      <<"Vscr;", <<"U+1D4B1">>>>,
      <<"Vvdash;", <<"U+22AA">>>>,
      <<"Wcirc;", <<"U+0174">>>>,
      <<"Wedge;", <<"U+22C0">>>>,
      <<"Wfr;", <<"U+1D51A">>>>,
      <<"Wopf;", <<"U+1D54E">>>>,
      <<"Wscr;", <<"U+1D4B2">>>>,
      <<"Xfr;", <<"U+1D51B">>>>,
      <<"Xi;", <<"U+039E">>>>,
      <<"Xopf;", <<"U+1D54F">>>>,
      <<"Xscr;", <<"U+1D4B3">>>>,
      <<"YAcy;", <<"U+042F">>>>,
      <<"YIcy;", <<"U+0407">>>>,
      <<"YUcy;", <<"U+042E">>>>,
      <<"Yacute", <<"U+00DD">>>>,
      <<"Yacute;", <<"U+00DD">>>>,
      <<"Ycirc;", <<"U+0176">>>>,
      <<"Ycy;", <<"U+042B">>>>,
      <<"Yfr;", <<"U+1D51C">>>>,
      <<"Yopf;", <<"U+1D550">>>>,
      <<"Yscr;", <<"U+1D4B4">>>>,
      <<"Yuml;", <<"U+0178">>>>,
      <<"ZHcy;", <<"U+0416">>>>,
      <<"Zacute;", <<"U+0179">>>>,
      <<"Zcaron;", <<"U+017D">>>>,
      <<"Zcy;", <<"U+0417">>>>,
      <<"Zdot;", <<"U+017B">>>>,
      <<"ZeroWidthSpace;", <<"U+200B">>>>,
      <<"Zeta;", <<"U+0396">>>>,
      <<"Zfr;", <<"U+2128">>>>,
      <<"Zopf;", <<"U+2124">>>>,
      <<"Zscr;", <<"U+1D4B5">>>>,
      <<"aacute", <<"U+00E1">>>>,
      <<"aacute;", <<"U+00E1">>>>,
      <<"abreve;", <<"U+0103">>>>,
      <<"ac;", <<"U+223E">>>>,
      <<"acE;", <<"U+223E", "U+0333">>>>,
      <<"acd;", <<"U+223F">>>>,
      <<"acirc", <<"U+00E2">>>>,
      <<"acirc;", <<"U+00E2">>>>,
      <<"acute", <<"U+00B4">>>>,
      <<"acute;", <<"U+00B4">>>>,
      <<"acy;", <<"U+0430">>>>,
      <<"aelig", <<"U+00E6">>>>,
      <<"aelig;", <<"U+00E6">>>>,
      <<"af;", <<"U+2061">>>>,
      <<"afr;", <<"U+1D51E">>>>,
      <<"agrave", <<"U+00E0">>>>,
      <<"agrave;", <<"U+00E0">>>>,
      <<"alefsym;", <<"U+2135">>>>,
      <<"aleph;", <<"U+2135">>>>,
      <<"alpha;", <<"U+03B1">>>>,
      <<"amacr;", <<"U+0101">>>>,
      <<"amalg;", <<"U+2A3F">>>>,
      <<"amp", <<"&">>>>,
      <<"amp;", <<"&">>>>,
      <<"and;", <<"U+2227">>>>,
      <<"andand;", <<"U+2A55">>>>,
      <<"andd;", <<"U+2A5C">>>>,
      <<"andslope;", <<"U+2A58">>>>,
      <<"andv;", <<"U+2A5A">>>>,
      <<"ang;", <<"U+2220">>>>,
      <<"ange;", <<"U+29A4">>>>,
      <<"angle;", <<"U+2220">>>>,
      <<"angmsd;", <<"U+2221">>>>,
      <<"angmsdaa;", <<"U+29A8">>>>,
      <<"angmsdab;", <<"U+29A9">>>>,
      <<"angmsdac;", <<"U+29AA">>>>,
      <<"angmsdad;", <<"U+29AB">>>>,
      <<"angmsdae;", <<"U+29AC">>>>,
      <<"angmsdaf;", <<"U+29AD">>>>,
      <<"angmsdag;", <<"U+29AE">>>>,
      <<"angmsdah;", <<"U+29AF">>>>,
      <<"angrt;", <<"U+221F">>>>,
      <<"angrtvb;", <<"U+22BE">>>>,
      <<"angrtvbd;", <<"U+299D">>>>,
      <<"angsph;", <<"U+2222">>>>,
      <<"angst;", <<"U+00C5">>>>,
      <<"angzarr;", <<"U+237C">>>>,
      <<"aogon;", <<"U+0105">>>>,
      <<"aopf;", <<"U+1D552">>>>,
      <<"ap;", <<"U+2248">>>>,
      <<"apE;", <<"U+2A70">>>>,
      <<"apacir;", <<"U+2A6F">>>>,
      <<"ape;", <<"U+224A">>>>,
      <<"apid;", <<"U+224B">>>>,
      <<"apos;", <<"'">>>>,
      <<"approx;", <<"U+2248">>>>,
      <<"approxeq;", <<"U+224A">>>>,
      <<"aring", <<"U+00E5">>>>,
      <<"aring;", <<"U+00E5">>>>,
      <<"ascr;", <<"U+1D4B6">>>>,
      <<"ast;", <<"*">>>>,
      <<"asymp;", <<"U+2248">>>>,
      <<"asympeq;", <<"U+224D">>>>,
      <<"atilde", <<"U+00E3">>>>,
      <<"atilde;", <<"U+00E3">>>>,
      <<"auml", <<"U+00E4">>>>,
      <<"auml;", <<"U+00E4">>>>,
      <<"awconint;", <<"U+2233">>>>,
      <<"awint;", <<"U+2A11">>>>,
      <<"bNot;", <<"U+2AED">>>>,
      <<"backcong;", <<"U+224C">>>>,
      <<"backepsilon;", <<"U+03F6">>>>,
      <<"backprime;", <<"U+2035">>>>,
      <<"backsim;", <<"U+223D">>>>,
      <<"backsimeq;", <<"U+22CD">>>>,
      <<"barvee;", <<"U+22BD">>>>,
      <<"barwed;", <<"U+2305">>>>,
      <<"barwedge;", <<"U+2305">>>>,
      <<"bbrk;", <<"U+23B5">>>>,
      <<"bbrktbrk;", <<"U+23B6">>>>,
      <<"bcong;", <<"U+224C">>>>,
      <<"bcy;", <<"U+0431">>>>,
      <<"bdquo;", <<"U+201E">>>>,
      <<"becaus;", <<"U+2235">>>>,
      <<"because;", <<"U+2235">>>>,
      <<"bemptyv;", <<"U+29B0">>>>,
      <<"bepsi;", <<"U+03F6">>>>,
      <<"bernou;", <<"U+212C">>>>,
      <<"beta;", <<"U+03B2">>>>,
      <<"beth;", <<"U+2136">>>>,
      <<"between;", <<"U+226C">>>>,
      <<"bfr;", <<"U+1D51F">>>>,
      <<"bigcap;", <<"U+22C2">>>>,
      <<"bigcirc;", <<"U+25EF">>>>,
      <<"bigcup;", <<"U+22C3">>>>,
      <<"bigodot;", <<"U+2A00">>>>,
      <<"bigoplus;", <<"U+2A01">>>>,
      <<"bigotimes;", <<"U+2A02">>>>,
      <<"bigsqcup;", <<"U+2A06">>>>,
      <<"bigstar;", <<"U+2605">>>>,
      <<"bigtriangledown;", <<"U+25BD">>>>,
      <<"bigtriangleup;", <<"U+25B3">>>>,
      <<"biguplus;", <<"U+2A04">>>>,
      <<"bigvee;", <<"U+22C1">>>>,
      <<"bigwedge;", <<"U+22C0">>>>,
      <<"bkarow;", <<"U+290D">>>>,
      <<"blacklozenge;", <<"U+29EB">>>>,
      <<"blacksquare;", <<"U+25AA">>>>,
      <<"blacktriangle;", <<"U+25B4">>>>,
      <<"blacktriangledown;", <<"U+25BE">>>>,
      <<"blacktriangleleft;", <<"U+25C2">>>>,
      <<"blacktriangleright;", <<"U+25B8">>>>,
      <<"blank;", <<"U+2423">>>>,
      <<"blk12;", <<"U+2592">>>>,
      <<"blk14;", <<"U+2591">>>>,
      <<"blk34;", <<"U+2593">>>>,
      <<"block;", <<"U+2588">>>>,
      <<"bne;", <<"=", "U+20E5">>>>,
      <<"bnequiv;", <<"U+2261", "U+20E5">>>>,
      <<"bnot;", <<"U+2310">>>>,
      <<"bopf;", <<"U+1D553">>>>,
      <<"bot;", <<"U+22A5">>>>,
      <<"bottom;", <<"U+22A5">>>>,
      <<"bowtie;", <<"U+22C8">>>>,
      <<"boxDL;", <<"U+2557">>>>,
      <<"boxDR;", <<"U+2554">>>>,
      <<"boxDl;", <<"U+2556">>>>,
      <<"boxDr;", <<"U+2553">>>>,
      <<"boxH;", <<"U+2550">>>>,
      <<"boxHD;", <<"U+2566">>>>,
      <<"boxHU;", <<"U+2569">>>>,
      <<"boxHd;", <<"U+2564">>>>,
      <<"boxHu;", <<"U+2567">>>>,
      <<"boxUL;", <<"U+255D">>>>,
      <<"boxUR;", <<"U+255A">>>>,
      <<"boxUl;", <<"U+255C">>>>,
      <<"boxUr;", <<"U+2559">>>>,
      <<"boxV;", <<"U+2551">>>>,
      <<"boxVH;", <<"U+256C">>>>,
      <<"boxVL;", <<"U+2563">>>>,
      <<"boxVR;", <<"U+2560">>>>,
      <<"boxVh;", <<"U+256B">>>>,
      <<"boxVl;", <<"U+2562">>>>,
      <<"boxVr;", <<"U+255F">>>>,
      <<"boxbox;", <<"U+29C9">>>>,
      <<"boxdL;", <<"U+2555">>>>,
      <<"boxdR;", <<"U+2552">>>>,
      <<"boxdl;", <<"U+2510">>>>,
      <<"boxdr;", <<"U+250C">>>>,
      <<"boxh;", <<"U+2500">>>>,
      <<"boxhD;", <<"U+2565">>>>,
      <<"boxhU;", <<"U+2568">>>>,
      <<"boxhd;", <<"U+252C">>>>,
      <<"boxhu;", <<"U+2534">>>>,
      <<"boxminus;", <<"U+229F">>>>,
      <<"boxplus;", <<"U+229E">>>>,
      <<"boxtimes;", <<"U+22A0">>>>,
      <<"boxuL;", <<"U+255B">>>>,
      <<"boxuR;", <<"U+2558">>>>,
      <<"boxul;", <<"U+2518">>>>,
      <<"boxur;", <<"U+2514">>>>,
      <<"boxv;", <<"U+2502">>>>,
      <<"boxvH;", <<"U+256A">>>>,
      <<"boxvL;", <<"U+2561">>>>,
      <<"boxvR;", <<"U+255E">>>>,
      <<"boxvh;", <<"U+253C">>>>,
      <<"boxvl;", <<"U+2524">>>>,
      <<"boxvr;", <<"U+251C">>>>,
      <<"bprime;", <<"U+2035">>>>,
      <<"breve;", <<"U+02D8">>>>,
      <<"brvbar", <<"U+00A6">>>>,
      <<"brvbar;", <<"U+00A6">>>>,
      <<"bscr;", <<"U+1D4B7">>>>,
      <<"bsemi;", <<"U+204F">>>>,
      <<"bsim;", <<"U+223D">>>>,
      <<"bsime;", <<"U+22CD">>>>,
      <<"bsol;", <<"\\">>>>,
      <<"bsolb;", <<"U+29C5">>>>,
      <<"bsolhsub;", <<"U+27C8">>>>,
      <<"bull;", <<"U+2022">>>>,
      <<"bullet;", <<"U+2022">>>>,
      <<"bump;", <<"U+224E">>>>,
      <<"bumpE;", <<"U+2AAE">>>>,
      <<"bumpe;", <<"U+224F">>>>,
      <<"bumpeq;", <<"U+224F">>>>,
      <<"cacute;", <<"U+0107">>>>,
      <<"cap;", <<"U+2229">>>>,
      <<"capand;", <<"U+2A44">>>>,
      <<"capbrcup;", <<"U+2A49">>>>,
      <<"capcap;", <<"U+2A4B">>>>,
      <<"capcup;", <<"U+2A47">>>>,
      <<"capdot;", <<"U+2A40">>>>,
      <<"caps;", <<"U+2229", "U+FE00">>>>,
      <<"caret;", <<"U+2041">>>>,
      <<"caron;", <<"U+02C7">>>>,
      <<"ccaps;", <<"U+2A4D">>>>,
      <<"ccaron;", <<"U+010D">>>>,
      <<"ccedil", <<"U+00E7">>>>,
      <<"ccedil;", <<"U+00E7">>>>,
      <<"ccirc;", <<"U+0109">>>>,
      <<"ccups;", <<"U+2A4C">>>>,
      <<"ccupssm;", <<"U+2A50">>>>,
      <<"cdot;", <<"U+010B">>>>,
      <<"cedil", <<"U+00B8">>>>,
      <<"cedil;", <<"U+00B8">>>>,
      <<"cemptyv;", <<"U+29B2">>>>,
      <<"cent", <<"U+00A2">>>>,
      <<"cent;", <<"U+00A2">>>>,
      <<"centerdot;", <<"U+00B7">>>>,
      <<"cfr;", <<"U+1D520">>>>,
      <<"chcy;", <<"U+0447">>>>,
      <<"check;", <<"U+2713">>>>,
      <<"checkmark;", <<"U+2713">>>>,
      <<"chi;", <<"U+03C7">>>>,
      <<"cir;", <<"U+25CB">>>>,
      <<"cirE;", <<"U+29C3">>>>,
      <<"circ;", <<"U+02C6">>>>,
      <<"circeq;", <<"U+2257">>>>,
      <<"circlearrowleft;", <<"U+21BA">>>>,
      <<"circlearrowright;", <<"U+21BB">>>>,
      <<"circledR;", <<"U+00AE">>>>,
      <<"circledS;", <<"U+24C8">>>>,
      <<"circledast;", <<"U+229B">>>>,
      <<"circledcirc;", <<"U+229A">>>>,
      <<"circleddash;", <<"U+229D">>>>,
      <<"cire;", <<"U+2257">>>>,
      <<"cirfnint;", <<"U+2A10">>>>,
      <<"cirmid;", <<"U+2AEF">>>>,
      <<"cirscir;", <<"U+29C2">>>>,
      <<"clubs;", <<"U+2663">>>>,
      <<"clubsuit;", <<"U+2663">>>>,
      <<"colon;", <<":">>>>,
      <<"colone;", <<"U+2254">>>>,
      <<"coloneq;", <<"U+2254">>>>,
      <<"comma;", <<",">>>>,
      <<"commat;", <<"@">>>>,
      <<"comp;", <<"U+2201">>>>,
      <<"compfn;", <<"U+2218">>>>,
      <<"complement;", <<"U+2201">>>>,
      <<"complexes;", <<"U+2102">>>>,
      <<"cong;", <<"U+2245">>>>,
      <<"congdot;", <<"U+2A6D">>>>,
      <<"conint;", <<"U+222E">>>>,
      <<"copf;", <<"U+1D554">>>>,
      <<"coprod;", <<"U+2210">>>>,
      <<"copy", <<"U+00A9">>>>,
      <<"copy;", <<"U+00A9">>>>,
      <<"copysr;", <<"U+2117">>>>,
      <<"crarr;", <<"U+21B5">>>>,
      <<"cross;", <<"U+2717">>>>,
      <<"cscr;", <<"U+1D4B8">>>>,
      <<"csub;", <<"U+2ACF">>>>,
      <<"csube;", <<"U+2AD1">>>>,
      <<"csup;", <<"U+2AD0">>>>,
      <<"csupe;", <<"U+2AD2">>>>,
      <<"ctdot;", <<"U+22EF">>>>,
      <<"cudarrl;", <<"U+2938">>>>,
      <<"cudarrr;", <<"U+2935">>>>,
      <<"cuepr;", <<"U+22DE">>>>,
      <<"cuesc;", <<"U+22DF">>>>,
      <<"cularr;", <<"U+21B6">>>>,
      <<"cularrp;", <<"U+293D">>>>,
      <<"cup;", <<"U+222A">>>>,
      <<"cupbrcap;", <<"U+2A48">>>>,
      <<"cupcap;", <<"U+2A46">>>>,
      <<"cupcup;", <<"U+2A4A">>>>,
      <<"cupdot;", <<"U+228D">>>>,
      <<"cupor;", <<"U+2A45">>>>,
      <<"cups;", <<"U+222A", "U+FE00">>>>,
      <<"curarr;", <<"U+21B7">>>>,
      <<"curarrm;", <<"U+293C">>>>,
      <<"curlyeqprec;", <<"U+22DE">>>>,
      <<"curlyeqsucc;", <<"U+22DF">>>>,
      <<"curlyvee;", <<"U+22CE">>>>,
      <<"curlywedge;", <<"U+22CF">>>>,
      <<"curren", <<"U+00A4">>>>,
      <<"curren;", <<"U+00A4">>>>,
      <<"curvearrowleft;", <<"U+21B6">>>>,
      <<"curvearrowright;", <<"U+21B7">>>>,
      <<"cuvee;", <<"U+22CE">>>>,
      <<"cuwed;", <<"U+22CF">>>>,
      <<"cwconint;", <<"U+2232">>>>,
      <<"cwint;", <<"U+2231">>>>,
      <<"cylcty;", <<"U+232D">>>>,
      <<"dArr;", <<"U+21D3">>>>,
      <<"dHar;", <<"U+2965">>>>,
      <<"dagger;", <<"U+2020">>>>,
      <<"daleth;", <<"U+2138">>>>,
      <<"darr;", <<"U+2193">>>>,
      <<"dash;", <<"U+2010">>>>,
      <<"dashv;", <<"U+22A3">>>>,
      <<"dbkarow;", <<"U+290F">>>>,
      <<"dblac;", <<"U+02DD">>>>,
      <<"dcaron;", <<"U+010F">>>>,
      <<"dcy;", <<"U+0434">>>>,
      <<"dd;", <<"U+2146">>>>,
      <<"ddagger;", <<"U+2021">>>>,
      <<"ddarr;", <<"U+21CA">>>>,
      <<"ddotseq;", <<"U+2A77">>>>,
      <<"deg", <<"U+00B0">>>>,
      <<"deg;", <<"U+00B0">>>>,
      <<"delta;", <<"U+03B4">>>>,
      <<"demptyv;", <<"U+29B1">>>>,
      <<"dfisht;", <<"U+297F">>>>,
      <<"dfr;", <<"U+1D521">>>>,
      <<"dharl;", <<"U+21C3">>>>,
      <<"dharr;", <<"U+21C2">>>>,
      <<"diam;", <<"U+22C4">>>>,
      <<"diamond;", <<"U+22C4">>>>,
      <<"diamondsuit;", <<"U+2666">>>>,
      <<"diams;", <<"U+2666">>>>,
      <<"die;", <<"U+00A8">>>>,
      <<"digamma;", <<"U+03DD">>>>,
      <<"disin;", <<"U+22F2">>>>,
      <<"div;", <<"U+00F7">>>>,
      <<"divide", <<"U+00F7">>>>,
      <<"divide;", <<"U+00F7">>>>,
      <<"divideontimes;", <<"U+22C7">>>>,
      <<"divonx;", <<"U+22C7">>>>,
      <<"djcy;", <<"U+0452">>>>,
      <<"dlcorn;", <<"U+231E">>>>,
      <<"dlcrop;", <<"U+230D">>>>,
      <<"dollar;", <<"$">>>>,
      <<"dopf;", <<"U+1D555">>>>,
      <<"dot;", <<"U+02D9">>>>,
      <<"doteq;", <<"U+2250">>>>,
      <<"doteqdot;", <<"U+2251">>>>,
      <<"dotminus;", <<"U+2238">>>>,
      <<"dotplus;", <<"U+2214">>>>,
      <<"dotsquare;", <<"U+22A1">>>>,
      <<"doublebarwedge;", <<"U+2306">>>>,
      <<"downarrow;", <<"U+2193">>>>,
      <<"downdownarrows;", <<"U+21CA">>>>,
      <<"downharpoonleft;", <<"U+21C3">>>>,
      <<"downharpoonright;", <<"U+21C2">>>>,
      <<"drbkarow;", <<"U+2910">>>>,
      <<"drcorn;", <<"U+231F">>>>,
      <<"drcrop;", <<"U+230C">>>>,
      <<"dscr;", <<"U+1D4B9">>>>,
      <<"dscy;", <<"U+0455">>>>,
      <<"dsol;", <<"U+29F6">>>>,
      <<"dstrok;", <<"U+0111">>>>,
      <<"dtdot;", <<"U+22F1">>>>,
      <<"dtri;", <<"U+25BF">>>>,
      <<"dtrif;", <<"U+25BE">>>>,
      <<"duarr;", <<"U+21F5">>>>,
      <<"duhar;", <<"U+296F">>>>,
      <<"dwangle;", <<"U+29A6">>>>,
      <<"dzcy;", <<"U+045F">>>>,
      <<"dzigrarr;", <<"U+27FF">>>>,
      <<"eDDot;", <<"U+2A77">>>>,
      <<"eDot;", <<"U+2251">>>>,
      <<"eacute", <<"U+00E9">>>>,
      <<"eacute;", <<"U+00E9">>>>,
      <<"easter;", <<"U+2A6E">>>>,
      <<"ecaron;", <<"U+011B">>>>,
      <<"ecir;", <<"U+2256">>>>,
      <<"ecirc", <<"U+00EA">>>>,
      <<"ecirc;", <<"U+00EA">>>>,
      <<"ecolon;", <<"U+2255">>>>,
      <<"ecy;", <<"U+044D">>>>,
      <<"edot;", <<"U+0117">>>>,
      <<"ee;", <<"U+2147">>>>,
      <<"efDot;", <<"U+2252">>>>,
      <<"efr;", <<"U+1D522">>>>,
      <<"eg;", <<"U+2A9A">>>>,
      <<"egrave", <<"U+00E8">>>>,
      <<"egrave;", <<"U+00E8">>>>,
      <<"egs;", <<"U+2A96">>>>,
      <<"egsdot;", <<"U+2A98">>>>,
      <<"el;", <<"U+2A99">>>>,
      <<"elinters;", <<"U+23E7">>>>,
      <<"ell;", <<"U+2113">>>>,
      <<"els;", <<"U+2A95">>>>,
      <<"elsdot;", <<"U+2A97">>>>,
      <<"emacr;", <<"U+0113">>>>,
      <<"empty;", <<"U+2205">>>>,
      <<"emptyset;", <<"U+2205">>>>,
      <<"emptyv;", <<"U+2205">>>>,
      <<"emsp13;", <<"U+2004">>>>,
      <<"emsp14;", <<"U+2005">>>>,
      <<"emsp;", <<"U+2003">>>>,
      <<"eng;", <<"U+014B">>>>,
      <<"ensp;", <<"U+2002">>>>,
      <<"eogon;", <<"U+0119">>>>,
      <<"eopf;", <<"U+1D556">>>>,
      <<"epar;", <<"U+22D5">>>>,
      <<"eparsl;", <<"U+29E3">>>>,
      <<"eplus;", <<"U+2A71">>>>,
      <<"epsi;", <<"U+03B5">>>>,
      <<"epsilon;", <<"U+03B5">>>>,
      <<"epsiv;", <<"U+03F5">>>>,
      <<"eqcirc;", <<"U+2256">>>>,
      <<"eqcolon;", <<"U+2255">>>>,
      <<"eqsim;", <<"U+2242">>>>,
      <<"eqslantgtr;", <<"U+2A96">>>>,
      <<"eqslantless;", <<"U+2A95">>>>,
      <<"equals;", <<"=">>>>,
      <<"equest;", <<"U+225F">>>>,
      <<"equiv;", <<"U+2261">>>>,
      <<"equivDD;", <<"U+2A78">>>>,
      <<"eqvparsl;", <<"U+29E5">>>>,
      <<"erDot;", <<"U+2253">>>>,
      <<"erarr;", <<"U+2971">>>>,
      <<"escr;", <<"U+212F">>>>,
      <<"esdot;", <<"U+2250">>>>,
      <<"esim;", <<"U+2242">>>>,
      <<"eta;", <<"U+03B7">>>>,
      <<"eth", <<"U+00F0">>>>,
      <<"eth;", <<"U+00F0">>>>,
      <<"euml", <<"U+00EB">>>>,
      <<"euml;", <<"U+00EB">>>>,
      <<"euro;", <<"U+20AC">>>>,
      <<"excl;", <<"!">>>>,
      <<"exist;", <<"U+2203">>>>,
      <<"expectation;", <<"U+2130">>>>,
      <<"exponentiale;", <<"U+2147">>>>,
      <<"fallingdotseq;", <<"U+2252">>>>,
      <<"fcy;", <<"U+0444">>>>,
      <<"female;", <<"U+2640">>>>,
      <<"ffilig;", <<"U+FB03">>>>,
      <<"fflig;", <<"U+FB00">>>>,
      <<"ffllig;", <<"U+FB04">>>>,
      <<"ffr;", <<"U+1D523">>>>,
      <<"filig;", <<"U+FB01">>>>,
      <<"fjlig;", <<"f", "j">>>>,
      <<"flat;", <<"U+266D">>>>,
      <<"fllig;", <<"U+FB02">>>>,
      <<"fltns;", <<"U+25B1">>>>,
      <<"fnof;", <<"U+0192">>>>,
      <<"fopf;", <<"U+1D557">>>>,
      <<"forall;", <<"U+2200">>>>,
      <<"fork;", <<"U+22D4">>>>,
      <<"forkv;", <<"U+2AD9">>>>,
      <<"fpartint;", <<"U+2A0D">>>>,
      <<"frac12", <<"U+00BD">>>>,
      <<"frac12;", <<"U+00BD">>>>,
      <<"frac13;", <<"U+2153">>>>,
      <<"frac14", <<"U+00BC">>>>,
      <<"frac14;", <<"U+00BC">>>>,
      <<"frac15;", <<"U+2155">>>>,
      <<"frac16;", <<"U+2159">>>>,
      <<"frac18;", <<"U+215B">>>>,
      <<"frac23;", <<"U+2154">>>>,
      <<"frac25;", <<"U+2156">>>>,
      <<"frac34", <<"U+00BE">>>>,
      <<"frac34;", <<"U+00BE">>>>,
      <<"frac35;", <<"U+2157">>>>,
      <<"frac38;", <<"U+215C">>>>,
      <<"frac45;", <<"U+2158">>>>,
      <<"frac56;", <<"U+215A">>>>,
      <<"frac58;", <<"U+215D">>>>,
      <<"frac78;", <<"U+215E">>>>,
      <<"frasl;", <<"U+2044">>>>,
      <<"frown;", <<"U+2322">>>>,
      <<"fscr;", <<"U+1D4BB">>>>,
      <<"gE;", <<"U+2267">>>>,
      <<"gEl;", <<"U+2A8C">>>>,
      <<"gacute;", <<"U+01F5">>>>,
      <<"gamma;", <<"U+03B3">>>>,
      <<"gammad;", <<"U+03DD">>>>,
      <<"gap;", <<"U+2A86">>>>,
      <<"gbreve;", <<"U+011F">>>>,
      <<"gcirc;", <<"U+011D">>>>,
      <<"gcy;", <<"U+0433">>>>,
      <<"gdot;", <<"U+0121">>>>,
      <<"ge;", <<"U+2265">>>>,
      <<"gel;", <<"U+22DB">>>>,
      <<"geq;", <<"U+2265">>>>,
      <<"geqq;", <<"U+2267">>>>,
      <<"geqslant;", <<"U+2A7E">>>>,
      <<"ges;", <<"U+2A7E">>>>,
      <<"gescc;", <<"U+2AA9">>>>,
      <<"gesdot;", <<"U+2A80">>>>,
      <<"gesdoto;", <<"U+2A82">>>>,
      <<"gesdotol;", <<"U+2A84">>>>,
      <<"gesl;", <<"U+22DB", "U+FE00">>>>,
      <<"gesles;", <<"U+2A94">>>>,
      <<"gfr;", <<"U+1D524">>>>,
      <<"gg;", <<"U+226B">>>>,
      <<"ggg;", <<"U+22D9">>>>,
      <<"gimel;", <<"U+2137">>>>,
      <<"gjcy;", <<"U+0453">>>>,
      <<"gl;", <<"U+2277">>>>,
      <<"glE;", <<"U+2A92">>>>,
      <<"gla;", <<"U+2AA5">>>>,
      <<"glj;", <<"U+2AA4">>>>,
      <<"gnE;", <<"U+2269">>>>,
      <<"gnap;", <<"U+2A8A">>>>,
      <<"gnapprox;", <<"U+2A8A">>>>,
      <<"gne;", <<"U+2A88">>>>,
      <<"gneq;", <<"U+2A88">>>>,
      <<"gneqq;", <<"U+2269">>>>,
      <<"gnsim;", <<"U+22E7">>>>,
      <<"gopf;", <<"U+1D558">>>>,
      <<"grave;", <<"U+0060">>>>,
      <<"gscr;", <<"U+210A">>>>,
      <<"gsim;", <<"U+2273">>>>,
      <<"gsime;", <<"U+2A8E">>>>,
      <<"gsiml;", <<"U+2A90">>>>,
      <<"gt", <<">">>>>,
      <<"gt;", <<">">>>>,
      <<"gtcc;", <<"U+2AA7">>>>,
      <<"gtcir;", <<"U+2A7A">>>>,
      <<"gtdot;", <<"U+22D7">>>>,
      <<"gtlPar;", <<"U+2995">>>>,
      <<"gtquest;", <<"U+2A7C">>>>,
      <<"gtrapprox;", <<"U+2A86">>>>,
      <<"gtrarr;", <<"U+2978">>>>,
      <<"gtrdot;", <<"U+22D7">>>>,
      <<"gtreqless;", <<"U+22DB">>>>,
      <<"gtreqqless;", <<"U+2A8C">>>>,
      <<"gtrless;", <<"U+2277">>>>,
      <<"gtrsim;", <<"U+2273">>>>,
      <<"gvertneqq;", <<"U+2269", "U+FE00">>>>,
      <<"gvnE;", <<"U+2269", "U+FE00">>>>,
      <<"hArr;", <<"U+21D4">>>>,
      <<"hairsp;", <<"U+200A">>>>,
      <<"half;", <<"U+00BD">>>>,
      <<"hamilt;", <<"U+210B">>>>,
      <<"hardcy;", <<"U+044A">>>>,
      <<"harr;", <<"U+2194">>>>,
      <<"harrcir;", <<"U+2948">>>>,
      <<"harrw;", <<"U+21AD">>>>,
      <<"hbar;", <<"U+210F">>>>,
      <<"hcirc;", <<"U+0125">>>>,
      <<"hearts;", <<"U+2665">>>>,
      <<"heartsuit;", <<"U+2665">>>>,
      <<"hellip;", <<"U+2026">>>>,
      <<"hercon;", <<"U+22B9">>>>,
      <<"hfr;", <<"U+1D525">>>>,
      <<"hksearow;", <<"U+2925">>>>,
      <<"hkswarow;", <<"U+2926">>>>,
      <<"hoarr;", <<"U+21FF">>>>,
      <<"homtht;", <<"U+223B">>>>,
      <<"hookleftarrow;", <<"U+21A9">>>>,
      <<"hookrightarrow;", <<"U+21AA">>>>,
      <<"hopf;", <<"U+1D559">>>>,
      <<"horbar;", <<"U+2015">>>>,
      <<"hscr;", <<"U+1D4BD">>>>,
      <<"hslash;", <<"U+210F">>>>,
      <<"hstrok;", <<"U+0127">>>>,
      <<"hybull;", <<"U+2043">>>>,
      <<"hyphen;", <<"U+2010">>>>,
      <<"iacute", <<"U+00ED">>>>,
      <<"iacute;", <<"U+00ED">>>>,
      <<"ic;", <<"U+2063">>>>,
      <<"icirc", <<"U+00EE">>>>,
      <<"icirc;", <<"U+00EE">>>>,
      <<"icy;", <<"U+0438">>>>,
      <<"iecy;", <<"U+0435">>>>,
      <<"iexcl", <<"U+00A1">>>>,
      <<"iexcl;", <<"U+00A1">>>>,
      <<"iff;", <<"U+21D4">>>>,
      <<"ifr;", <<"U+1D526">>>>,
      <<"igrave", <<"U+00EC">>>>,
      <<"igrave;", <<"U+00EC">>>>,
      <<"ii;", <<"U+2148">>>>,
      <<"iiiint;", <<"U+2A0C">>>>,
      <<"iiint;", <<"U+222D">>>>,
      <<"iinfin;", <<"U+29DC">>>>,
      <<"iiota;", <<"U+2129">>>>,
      <<"ijlig;", <<"U+0133">>>>,
      <<"imacr;", <<"U+012B">>>>,
      <<"image;", <<"U+2111">>>>,
      <<"imagline;", <<"U+2110">>>>,
      <<"imagpart;", <<"U+2111">>>>,
      <<"imath;", <<"U+0131">>>>,
      <<"imof;", <<"U+22B7">>>>,
      <<"imped;", <<"U+01B5">>>>,
      <<"in;", <<"U+2208">>>>,
      <<"incare;", <<"U+2105">>>>,
      <<"infin;", <<"U+221E">>>>,
      <<"infintie;", <<"U+29DD">>>>,
      <<"inodot;", <<"U+0131">>>>,
      <<"int;", <<"U+222B">>>>,
      <<"intcal;", <<"U+22BA">>>>,
      <<"integers;", <<"U+2124">>>>,
      <<"intercal;", <<"U+22BA">>>>,
      <<"intlarhk;", <<"U+2A17">>>>,
      <<"intprod;", <<"U+2A3C">>>>,
      <<"iocy;", <<"U+0451">>>>,
      <<"iogon;", <<"U+012F">>>>,
      <<"iopf;", <<"U+1D55A">>>>,
      <<"iota;", <<"U+03B9">>>>,
      <<"iprod;", <<"U+2A3C">>>>,
      <<"iquest", <<"U+00BF">>>>,
      <<"iquest;", <<"U+00BF">>>>,
      <<"iscr;", <<"U+1D4BE">>>>,
      <<"isin;", <<"U+2208">>>>,
      <<"isinE;", <<"U+22F9">>>>,
      <<"isindot;", <<"U+22F5">>>>,
      <<"isins;", <<"U+22F4">>>>,
      <<"isinsv;", <<"U+22F3">>>>,
      <<"isinv;", <<"U+2208">>>>,
      <<"it;", <<"U+2062">>>>,
      <<"itilde;", <<"U+0129">>>>,
      <<"iukcy;", <<"U+0456">>>>,
      <<"iuml", <<"U+00EF">>>>,
      <<"iuml;", <<"U+00EF">>>>,
      <<"jcirc;", <<"U+0135">>>>,
      <<"jcy;", <<"U+0439">>>>,
      <<"jfr;", <<"U+1D527">>>>,
      <<"jmath;", <<"U+0237">>>>,
      <<"jopf;", <<"U+1D55B">>>>,
      <<"jscr;", <<"U+1D4BF">>>>,
      <<"jsercy;", <<"U+0458">>>>,
      <<"jukcy;", <<"U+0454">>>>,
      <<"kappa;", <<"U+03BA">>>>,
      <<"kappav;", <<"U+03F0">>>>,
      <<"kcedil;", <<"U+0137">>>>,
      <<"kcy;", <<"U+043A">>>>,
      <<"kfr;", <<"U+1D528">>>>,
      <<"kgreen;", <<"U+0138">>>>,
      <<"khcy;", <<"U+0445">>>>,
      <<"kjcy;", <<"U+045C">>>>,
      <<"kopf;", <<"U+1D55C">>>>,
      <<"kscr;", <<"U+1D4C0">>>>,
      <<"lAarr;", <<"U+21DA">>>>,
      <<"lArr;", <<"U+21D0">>>>,
      <<"lAtail;", <<"U+291B">>>>,
      <<"lBarr;", <<"U+290E">>>>,
      <<"lE;", <<"U+2266">>>>,
      <<"lEg;", <<"U+2A8B">>>>,
      <<"lHar;", <<"U+2962">>>>,
      <<"lacute;", <<"U+013A">>>>,
      <<"laemptyv;", <<"U+29B4">>>>,
      <<"lagran;", <<"U+2112">>>>,
      <<"lambda;", <<"U+03BB">>>>,
      <<"lang;", <<"U+27E8">>>>,
      <<"langd;", <<"U+2991">>>>,
      <<"langle;", <<"U+27E8">>>>,
      <<"lap;", <<"U+2A85">>>>,
      <<"laquo", <<"U+00AB">>>>,
      <<"laquo;", <<"U+00AB">>>>,
      <<"larr;", <<"U+2190">>>>,
      <<"larrb;", <<"U+21E4">>>>,
      <<"larrbfs;", <<"U+291F">>>>,
      <<"larrfs;", <<"U+291D">>>>,
      <<"larrhk;", <<"U+21A9">>>>,
      <<"larrlp;", <<"U+21AB">>>>,
      <<"larrpl;", <<"U+2939">>>>,
      <<"larrsim;", <<"U+2973">>>>,
      <<"larrtl;", <<"U+21A2">>>>,
      <<"lat;", <<"U+2AAB">>>>,
      <<"latail;", <<"U+2919">>>>,
      <<"late;", <<"U+2AAD">>>>,
      <<"lates;", <<"U+2AAD", "U+FE00">>>>,
      <<"lbarr;", <<"U+290C">>>>,
      <<"lbbrk;", <<"U+2772">>>>,
      <<"lbrace;", <<"{">>>>,
      <<"lbrack;", <<"[">>>>,
      <<"lbrke;", <<"U+298B">>>>,
      <<"lbrksld;", <<"U+298F">>>>,
      <<"lbrkslu;", <<"U+298D">>>>,
      <<"lcaron;", <<"U+013E">>>>,
      <<"lcedil;", <<"U+013C">>>>,
      <<"lceil;", <<"U+2308">>>>,
      <<"lcub;", <<"{">>>>,
      <<"lcy;", <<"U+043B">>>>,
      <<"ldca;", <<"U+2936">>>>,
      <<"ldquo;", <<"U+201C">>>>,
      <<"ldquor;", <<"U+201E">>>>,
      <<"ldrdhar;", <<"U+2967">>>>,
      <<"ldrushar;", <<"U+294B">>>>,
      <<"ldsh;", <<"U+21B2">>>>,
      <<"le;", <<"U+2264">>>>,
      <<"leftarrow;", <<"U+2190">>>>,
      <<"leftarrowtail;", <<"U+21A2">>>>,
      <<"leftharpoondown;", <<"U+21BD">>>>,
      <<"leftharpoonup;", <<"U+21BC">>>>,
      <<"leftleftarrows;", <<"U+21C7">>>>,
      <<"leftrightarrow;", <<"U+2194">>>>,
      <<"leftrightarrows;", <<"U+21C6">>>>,
      <<"leftrightharpoons;", <<"U+21CB">>>>,
      <<"leftrightsquigarrow;", <<"U+21AD">>>>,
      <<"leftthreetimes;", <<"U+22CB">>>>,
      <<"leg;", <<"U+22DA">>>>,
      <<"leq;", <<"U+2264">>>>,
      <<"leqq;", <<"U+2266">>>>,
      <<"leqslant;", <<"U+2A7D">>>>,
      <<"les;", <<"U+2A7D">>>>,
      <<"lescc;", <<"U+2AA8">>>>,
      <<"lesdot;", <<"U+2A7F">>>>,
      <<"lesdoto;", <<"U+2A81">>>>,
      <<"lesdotor;", <<"U+2A83">>>>,
      <<"lesg;", <<"U+22DA", "U+FE00">>>>,
      <<"lesges;", <<"U+2A93">>>>,
      <<"lessapprox;", <<"U+2A85">>>>,
      <<"lessdot;", <<"U+22D6">>>>,
      <<"lesseqgtr;", <<"U+22DA">>>>,
      <<"lesseqqgtr;", <<"U+2A8B">>>>,
      <<"lessgtr;", <<"U+2276">>>>,
      <<"lesssim;", <<"U+2272">>>>,
      <<"lfisht;", <<"U+297C">>>>,
      <<"lfloor;", <<"U+230A">>>>,
      <<"lfr;", <<"U+1D529">>>>,
      <<"lg;", <<"U+2276">>>>,
      <<"lgE;", <<"U+2A91">>>>,
      <<"lhard;", <<"U+21BD">>>>,
      <<"lharu;", <<"U+21BC">>>>,
      <<"lharul;", <<"U+296A">>>>,
      <<"lhblk;", <<"U+2584">>>>,
      <<"ljcy;", <<"U+0459">>>>,
      <<"ll;", <<"U+226A">>>>,
      <<"llarr;", <<"U+21C7">>>>,
      <<"llcorner;", <<"U+231E">>>>,
      <<"llhard;", <<"U+296B">>>>,
      <<"lltri;", <<"U+25FA">>>>,
      <<"lmidot;", <<"U+0140">>>>,
      <<"lmoust;", <<"U+23B0">>>>,
      <<"lmoustache;", <<"U+23B0">>>>,
      <<"lnE;", <<"U+2268">>>>,
      <<"lnap;", <<"U+2A89">>>>,
      <<"lnapprox;", <<"U+2A89">>>>,
      <<"lne;", <<"U+2A87">>>>,
      <<"lneq;", <<"U+2A87">>>>,
      <<"lneqq;", <<"U+2268">>>>,
      <<"lnsim;", <<"U+22E6">>>>,
      <<"loang;", <<"U+27EC">>>>,
      <<"loarr;", <<"U+21FD">>>>,
      <<"lobrk;", <<"U+27E6">>>>,
      <<"longleftarrow;", <<"U+27F5">>>>,
      <<"longleftrightarrow;", <<"U+27F7">>>>,
      <<"longmapsto;", <<"U+27FC">>>>,
      <<"longrightarrow;", <<"U+27F6">>>>,
      <<"looparrowleft;", <<"U+21AB">>>>,
      <<"looparrowright;", <<"U+21AC">>>>,
      <<"lopar;", <<"U+2985">>>>,
      <<"lopf;", <<"U+1D55D">>>>,
      <<"loplus;", <<"U+2A2D">>>>,
      <<"lotimes;", <<"U+2A34">>>>,
      <<"lowast;", <<"U+2217">>>>,
      <<"lowbar;", <<"_">>>>,
      <<"loz;", <<"U+25CA">>>>,
      <<"lozenge;", <<"U+25CA">>>>,
      <<"lozf;", <<"U+29EB">>>>,
      <<"lpar;", <<"(">>>>,
      <<"lparlt;", <<"U+2993">>>>,
      <<"lrarr;", <<"U+21C6">>>>,
      <<"lrcorner;", <<"U+231F">>>>,
      <<"lrhar;", <<"U+21CB">>>>,
      <<"lrhard;", <<"U+296D">>>>,
      <<"lrm;", <<"U+200E">>>>,
      <<"lrtri;", <<"U+22BF">>>>,
      <<"lsaquo;", <<"U+2039">>>>,
      <<"lscr;", <<"U+1D4C1">>>>,
      <<"lsh;", <<"U+21B0">>>>,
      <<"lsim;", <<"U+2272">>>>,
      <<"lsime;", <<"U+2A8D">>>>,
      <<"lsimg;", <<"U+2A8F">>>>,
      <<"lsqb;", <<"[">>>>,
      <<"lsquo;", <<"U+2018">>>>,
      <<"lsquor;", <<"U+201A">>>>,
      <<"lstrok;", <<"U+0142">>>>,
      <<"lt", <<"<">>>>,
      <<"lt;", <<"<">>>>,
      <<"ltcc;", <<"U+2AA6">>>>,
      <<"ltcir;", <<"U+2A79">>>>,
      <<"ltdot;", <<"U+22D6">>>>,
      <<"lthree;", <<"U+22CB">>>>,
      <<"ltimes;", <<"U+22C9">>>>,
      <<"ltlarr;", <<"U+2976">>>>,
      <<"ltquest;", <<"U+2A7B">>>>,
      <<"ltrPar;", <<"U+2996">>>>,
      <<"ltri;", <<"U+25C3">>>>,
      <<"ltrie;", <<"U+22B4">>>>,
      <<"ltrif;", <<"U+25C2">>>>,
      <<"lurdshar;", <<"U+294A">>>>,
      <<"luruhar;", <<"U+2966">>>>,
      <<"lvertneqq;", <<"U+2268", "U+FE00">>>>,
      <<"lvnE;", <<"U+2268", "U+FE00">>>>,
      <<"mDDot;", <<"U+223A">>>>,
      <<"macr", <<"U+00AF">>>>,
      <<"macr;", <<"U+00AF">>>>,
      <<"male;", <<"U+2642">>>>,
      <<"malt;", <<"U+2720">>>>,
      <<"maltese;", <<"U+2720">>>>,
      <<"map;", <<"U+21A6">>>>,
      <<"mapsto;", <<"U+21A6">>>>,
      <<"mapstodown;", <<"U+21A7">>>>,
      <<"mapstoleft;", <<"U+21A4">>>>,
      <<"mapstoup;", <<"U+21A5">>>>,
      <<"marker;", <<"U+25AE">>>>,
      <<"mcomma;", <<"U+2A29">>>>,
      <<"mcy;", <<"U+043C">>>>,
      <<"mdash;", <<"U+2014">>>>,
      <<"measuredangle;", <<"U+2221">>>>,
      <<"mfr;", <<"U+1D52A">>>>,
      <<"mho;", <<"U+2127">>>>,
      <<"micro", <<"U+00B5">>>>,
      <<"micro;", <<"U+00B5">>>>,
      <<"mid;", <<"U+2223">>>>,
      <<"midast;", <<"*">>>>,
      <<"midcir;", <<"U+2AF0">>>>,
      <<"middot", <<"U+00B7">>>>,
      <<"middot;", <<"U+00B7">>>>,
      <<"minus;", <<"U+2212">>>>,
      <<"minusb;", <<"U+229F">>>>,
      <<"minusd;", <<"U+2238">>>>,
      <<"minusdu;", <<"U+2A2A">>>>,
      <<"mlcp;", <<"U+2ADB">>>>,
      <<"mldr;", <<"U+2026">>>>,
      <<"mnplus;", <<"U+2213">>>>,
      <<"models;", <<"U+22A7">>>>,
      <<"mopf;", <<"U+1D55E">>>>,
      <<"mp;", <<"U+2213">>>>,
      <<"mscr;", <<"U+1D4C2">>>>,
      <<"mstpos;", <<"U+223E">>>>,
      <<"mu;", <<"U+03BC">>>>,
      <<"multimap;", <<"U+22B8">>>>,
      <<"mumap;", <<"U+22B8">>>>,
      <<"nGg;", <<"U+22D9", "U+0338">>>>,
      <<"nGt;", <<"U+226B", "U+20D2">>>>,
      <<"nGtv;", <<"U+226B", "U+0338">>>>,
      <<"nLeftarrow;", <<"U+21CD">>>>,
      <<"nLeftrightarrow;", <<"U+21CE">>>>,
      <<"nLl;", <<"U+22D8", "U+0338">>>>,
      <<"nLt;", <<"U+226A", "U+20D2">>>>,
      <<"nLtv;", <<"U+226A", "U+0338">>>>,
      <<"nRightarrow;", <<"U+21CF">>>>,
      <<"nVDash;", <<"U+22AF">>>>,
      <<"nVdash;", <<"U+22AE">>>>,
      <<"nabla;", <<"U+2207">>>>,
      <<"nacute;", <<"U+0144">>>>,
      <<"nang;", <<"U+2220", "U+20D2">>>>,
      <<"nap;", <<"U+2249">>>>,
      <<"napE;", <<"U+2A70", "U+0338">>>>,
      <<"napid;", <<"U+224B", "U+0338">>>>,
      <<"napos;", <<"U+0149">>>>,
      <<"napprox;", <<"U+2249">>>>,
      <<"natur;", <<"U+266E">>>>,
      <<"natural;", <<"U+266E">>>>,
      <<"naturals;", <<"U+2115">>>>,
      <<"nbsp", <<"U+00A0">>>>,
      <<"nbsp;", <<"U+00A0">>>>,
      <<"nbump;", <<"U+224E", "U+0338">>>>,
      <<"nbumpe;", <<"U+224F", "U+0338">>>>,
      <<"ncap;", <<"U+2A43">>>>,
      <<"ncaron;", <<"U+0148">>>>,
      <<"ncedil;", <<"U+0146">>>>,
      <<"ncong;", <<"U+2247">>>>,
      <<"ncongdot;", <<"U+2A6D", "U+0338">>>>,
      <<"ncup;", <<"U+2A42">>>>,
      <<"ncy;", <<"U+043D">>>>,
      <<"ndash;", <<"U+2013">>>>,
      <<"ne;", <<"U+2260">>>>,
      <<"neArr;", <<"U+21D7">>>>,
      <<"nearhk;", <<"U+2924">>>>,
      <<"nearr;", <<"U+2197">>>>,
      <<"nearrow;", <<"U+2197">>>>,
      <<"nedot;", <<"U+2250", "U+0338">>>>,
      <<"nequiv;", <<"U+2262">>>>,
      <<"nesear;", <<"U+2928">>>>,
      <<"nesim;", <<"U+2242", "U+0338">>>>,
      <<"nexist;", <<"U+2204">>>>,
      <<"nexists;", <<"U+2204">>>>,
      <<"nfr;", <<"U+1D52B">>>>,
      <<"ngE;", <<"U+2267", "U+0338">>>>,
      <<"nge;", <<"U+2271">>>>,
      <<"ngeq;", <<"U+2271">>>>,
      <<"ngeqq;", <<"U+2267", "U+0338">>>>,
      <<"ngeqslant;", <<"U+2A7E", "U+0338">>>>,
      <<"nges;", <<"U+2A7E", "U+0338">>>>,
      <<"ngsim;", <<"U+2275">>>>,
      <<"ngt;", <<"U+226F">>>>,
      <<"ngtr;", <<"U+226F">>>>,
      <<"nhArr;", <<"U+21CE">>>>,
      <<"nharr;", <<"U+21AE">>>>,
      <<"nhpar;", <<"U+2AF2">>>>,
      <<"ni;", <<"U+220B">>>>,
      <<"nis;", <<"U+22FC">>>>,
      <<"nisd;", <<"U+22FA">>>>,
      <<"niv;", <<"U+220B">>>>,
      <<"njcy;", <<"U+045A">>>>,
      <<"nlArr;", <<"U+21CD">>>>,
      <<"nlE;", <<"U+2266", "U+0338">>>>,
      <<"nlarr;", <<"U+219A">>>>,
      <<"nldr;", <<"U+2025">>>>,
      <<"nle;", <<"U+2270">>>>,
      <<"nleftarrow;", <<"U+219A">>>>,
      <<"nleftrightarrow;", <<"U+21AE">>>>,
      <<"nleq;", <<"U+2270">>>>,
      <<"nleqq;", <<"U+2266", "U+0338">>>>,
      <<"nleqslant;", <<"U+2A7D", "U+0338">>>>,
      <<"nles;", <<"U+2A7D", "U+0338">>>>,
      <<"nless;", <<"U+226E">>>>,
      <<"nlsim;", <<"U+2274">>>>,
      <<"nlt;", <<"U+226E">>>>,
      <<"nltri;", <<"U+22EA">>>>,
      <<"nltrie;", <<"U+22EC">>>>,
      <<"nmid;", <<"U+2224">>>>,
      <<"nopf;", <<"U+1D55F">>>>,
      <<"not", <<"U+00AC">>>>,
      <<"not;", <<"U+00AC">>>>,
      <<"notin;", <<"U+2209">>>>,
      <<"notinE;", <<"U+22F9", "U+0338">>>>,
      <<"notindot;", <<"U+22F5", "U+0338">>>>,
      <<"notinva;", <<"U+2209">>>>,
      <<"notinvb;", <<"U+22F7">>>>,
      <<"notinvc;", <<"U+22F6">>>>,
      <<"notni;", <<"U+220C">>>>,
      <<"notniva;", <<"U+220C">>>>,
      <<"notnivb;", <<"U+22FE">>>>,
      <<"notnivc;", <<"U+22FD">>>>,
      <<"npar;", <<"U+2226">>>>,
      <<"nparallel;", <<"U+2226">>>>,
      <<"nparsl;", <<"U+2AFD", "U+20E5">>>>,
      <<"npart;", <<"U+2202", "U+0338">>>>,
      <<"npolint;", <<"U+2A14">>>>,
      <<"npr;", <<"U+2280">>>>,
      <<"nprcue;", <<"U+22E0">>>>,
      <<"npre;", <<"U+2AAF", "U+0338">>>>,
      <<"nprec;", <<"U+2280">>>>,
      <<"npreceq;", <<"U+2AAF", "U+0338">>>>,
      <<"nrArr;", <<"U+21CF">>>>,
      <<"nrarr;", <<"U+219B">>>>,
      <<"nrarrc;", <<"U+2933", "U+0338">>>>,
      <<"nrarrw;", <<"U+219D", "U+0338">>>>,
      <<"nrightarrow;", <<"U+219B">>>>,
      <<"nrtri;", <<"U+22EB">>>>,
      <<"nrtrie;", <<"U+22ED">>>>,
      <<"nsc;", <<"U+2281">>>>,
      <<"nsccue;", <<"U+22E1">>>>,
      <<"nsce;", <<"U+2AB0", "U+0338">>>>,
      <<"nscr;", <<"U+1D4C3">>>>,
      <<"nshortmid;", <<"U+2224">>>>,
      <<"nshortparallel;", <<"U+2226">>>>,
      <<"nsim;", <<"U+2241">>>>,
      <<"nsime;", <<"U+2244">>>>,
      <<"nsimeq;", <<"U+2244">>>>,
      <<"nsmid;", <<"U+2224">>>>,
      <<"nspar;", <<"U+2226">>>>,
      <<"nsqsube;", <<"U+22E2">>>>,
      <<"nsqsupe;", <<"U+22E3">>>>,
      <<"nsub;", <<"U+2284">>>>,
      <<"nsubE;", <<"U+2AC5", "U+0338">>>>,
      <<"nsube;", <<"U+2288">>>>,
      <<"nsubset;", <<"U+2282", "U+20D2">>>>,
      <<"nsubseteq;", <<"U+2288">>>>,
      <<"nsubseteqq;", <<"U+2AC5", "U+0338">>>>,
      <<"nsucc;", <<"U+2281">>>>,
      <<"nsucceq;", <<"U+2AB0", "U+0338">>>>,
      <<"nsup;", <<"U+2285">>>>,
      <<"nsupE;", <<"U+2AC6", "U+0338">>>>,
      <<"nsupe;", <<"U+2289">>>>,
      <<"nsupset;", <<"U+2283", "U+20D2">>>>,
      <<"nsupseteq;", <<"U+2289">>>>,
      <<"nsupseteqq;", <<"U+2AC6", "U+0338">>>>,
      <<"ntgl;", <<"U+2279">>>>,
      <<"ntilde", <<"U+00F1">>>>,
      <<"ntilde;", <<"U+00F1">>>>,
      <<"ntlg;", <<"U+2278">>>>,
      <<"ntriangleleft;", <<"U+22EA">>>>,
      <<"ntrianglelefteq;", <<"U+22EC">>>>,
      <<"ntriangleright;", <<"U+22EB">>>>,
      <<"ntrianglerighteq;", <<"U+22ED">>>>,
      <<"nu;", <<"U+03BD">>>>,
      <<"num;", <<"#">>>>,
      <<"numero;", <<"U+2116">>>>,
      <<"numsp;", <<"U+2007">>>>,
      <<"nvDash;", <<"U+22AD">>>>,
      <<"nvHarr;", <<"U+2904">>>>,
      <<"nvap;", <<"U+224D", "U+20D2">>>>,
      <<"nvdash;", <<"U+22AC">>>>,
      <<"nvge;", <<"U+2265", "U+20D2">>>>,
      <<"nvgt;", <<">", "U+20D2">>>>,
      <<"nvinfin;", <<"U+29DE">>>>,
      <<"nvlArr;", <<"U+2902">>>>,
      <<"nvle;", <<"U+2264", "U+20D2">>>>,
      <<"nvlt;", <<"<", "U+20D2">>>>,
      <<"nvltrie;", <<"U+22B4", "U+20D2">>>>,
      <<"nvrArr;", <<"U+2903">>>>,
      <<"nvrtrie;", <<"U+22B5", "U+20D2">>>>,
      <<"nvsim;", <<"U+223C", "U+20D2">>>>,
      <<"nwArr;", <<"U+21D6">>>>,
      <<"nwarhk;", <<"U+2923">>>>,
      <<"nwarr;", <<"U+2196">>>>,
      <<"nwarrow;", <<"U+2196">>>>,
      <<"nwnear;", <<"U+2927">>>>,
      <<"oS;", <<"U+24C8">>>>,
      <<"oacute", <<"U+00F3">>>>,
      <<"oacute;", <<"U+00F3">>>>,
      <<"oast;", <<"U+229B">>>>,
      <<"ocir;", <<"U+229A">>>>,
      <<"ocirc", <<"U+00F4">>>>,
      <<"ocirc;", <<"U+00F4">>>>,
      <<"ocy;", <<"U+043E">>>>,
      <<"odash;", <<"U+229D">>>>,
      <<"odblac;", <<"U+0151">>>>,
      <<"odiv;", <<"U+2A38">>>>,
      <<"odot;", <<"U+2299">>>>,
      <<"odsold;", <<"U+29BC">>>>,
      <<"oelig;", <<"U+0153">>>>,
      <<"ofcir;", <<"U+29BF">>>>,
      <<"ofr;", <<"U+1D52C">>>>,
      <<"ogon;", <<"U+02DB">>>>,
      <<"ograve", <<"U+00F2">>>>,
      <<"ograve;", <<"U+00F2">>>>,
      <<"ogt;", <<"U+29C1">>>>,
      <<"ohbar;", <<"U+29B5">>>>,
      <<"ohm;", <<"U+03A9">>>>,
      <<"oint;", <<"U+222E">>>>,
      <<"olarr;", <<"U+21BA">>>>,
      <<"olcir;", <<"U+29BE">>>>,
      <<"olcross;", <<"U+29BB">>>>,
      <<"oline;", <<"U+203E">>>>,
      <<"olt;", <<"U+29C0">>>>,
      <<"omacr;", <<"U+014D">>>>,
      <<"omega;", <<"U+03C9">>>>,
      <<"omicron;", <<"U+03BF">>>>,
      <<"omid;", <<"U+29B6">>>>,
      <<"ominus;", <<"U+2296">>>>,
      <<"oopf;", <<"U+1D560">>>>,
      <<"opar;", <<"U+29B7">>>>,
      <<"operp;", <<"U+29B9">>>>,
      <<"oplus;", <<"U+2295">>>>,
      <<"or;", <<"U+2228">>>>,
      <<"orarr;", <<"U+21BB">>>>,
      <<"ord;", <<"U+2A5D">>>>,
      <<"order;", <<"U+2134">>>>,
      <<"orderof;", <<"U+2134">>>>,
      <<"ordf", <<"U+00AA">>>>,
      <<"ordf;", <<"U+00AA">>>>,
      <<"ordm", <<"U+00BA">>>>,
      <<"ordm;", <<"U+00BA">>>>,
      <<"origof;", <<"U+22B6">>>>,
      <<"oror;", <<"U+2A56">>>>,
      <<"orslope;", <<"U+2A57">>>>,
      <<"orv;", <<"U+2A5B">>>>,
      <<"oscr;", <<"U+2134">>>>,
      <<"oslash", <<"U+00F8">>>>,
      <<"oslash;", <<"U+00F8">>>>,
      <<"osol;", <<"U+2298">>>>,
      <<"otilde", <<"U+00F5">>>>,
      <<"otilde;", <<"U+00F5">>>>,
      <<"otimes;", <<"U+2297">>>>,
      <<"otimesas;", <<"U+2A36">>>>,
      <<"ouml", <<"U+00F6">>>>,
      <<"ouml;", <<"U+00F6">>>>,
      <<"ovbar;", <<"U+233D">>>>,
      <<"par;", <<"U+2225">>>>,
      <<"para", <<"U+00B6">>>>,
      <<"para;", <<"U+00B6">>>>,
      <<"parallel;", <<"U+2225">>>>,
      <<"parsim;", <<"U+2AF3">>>>,
      <<"parsl;", <<"U+2AFD">>>>,
      <<"part;", <<"U+2202">>>>,
      <<"pcy;", <<"U+043F">>>>,
      <<"percnt;", <<"%">>>>,
      <<"period;", <<".">>>>,
      <<"permil;", <<"U+2030">>>>,
      <<"perp;", <<"U+22A5">>>>,
      <<"pertenk;", <<"U+2031">>>>,
      <<"pfr;", <<"U+1D52D">>>>,
      <<"phi;", <<"U+03C6">>>>,
      <<"phiv;", <<"U+03D5">>>>,
      <<"phmmat;", <<"U+2133">>>>,
      <<"phone;", <<"U+260E">>>>,
      <<"pi;", <<"U+03C0">>>>,
      <<"pitchfork;", <<"U+22D4">>>>,
      <<"piv;", <<"U+03D6">>>>,
      <<"planck;", <<"U+210F">>>>,
      <<"planckh;", <<"U+210E">>>>,
      <<"plankv;", <<"U+210F">>>>,
      <<"plus;", <<"+">>>>,
      <<"plusacir;", <<"U+2A23">>>>,
      <<"plusb;", <<"U+229E">>>>,
      <<"pluscir;", <<"U+2A22">>>>,
      <<"plusdo;", <<"U+2214">>>>,
      <<"plusdu;", <<"U+2A25">>>>,
      <<"pluse;", <<"U+2A72">>>>,
      <<"plusmn", <<"U+00B1">>>>,
      <<"plusmn;", <<"U+00B1">>>>,
      <<"plussim;", <<"U+2A26">>>>,
      <<"plustwo;", <<"U+2A27">>>>,
      <<"pm;", <<"U+00B1">>>>,
      <<"pointint;", <<"U+2A15">>>>,
      <<"popf;", <<"U+1D561">>>>,
      <<"pound", <<"U+00A3">>>>,
      <<"pound;", <<"U+00A3">>>>,
      <<"pr;", <<"U+227A">>>>,
      <<"prE;", <<"U+2AB3">>>>,
      <<"prap;", <<"U+2AB7">>>>,
      <<"prcue;", <<"U+227C">>>>,
      <<"pre;", <<"U+2AAF">>>>,
      <<"prec;", <<"U+227A">>>>,
      <<"precapprox;", <<"U+2AB7">>>>,
      <<"preccurlyeq;", <<"U+227C">>>>,
      <<"preceq;", <<"U+2AAF">>>>,
      <<"precnapprox;", <<"U+2AB9">>>>,
      <<"precneqq;", <<"U+2AB5">>>>,
      <<"precnsim;", <<"U+22E8">>>>,
      <<"precsim;", <<"U+227E">>>>,
      <<"prime;", <<"U+2032">>>>,
      <<"primes;", <<"U+2119">>>>,
      <<"prnE;", <<"U+2AB5">>>>,
      <<"prnap;", <<"U+2AB9">>>>,
      <<"prnsim;", <<"U+22E8">>>>,
      <<"prod;", <<"U+220F">>>>,
      <<"profalar;", <<"U+232E">>>>,
      <<"profline;", <<"U+2312">>>>,
      <<"profsurf;", <<"U+2313">>>>,
      <<"prop;", <<"U+221D">>>>,
      <<"propto;", <<"U+221D">>>>,
      <<"prsim;", <<"U+227E">>>>,
      <<"prurel;", <<"U+22B0">>>>,
      <<"pscr;", <<"U+1D4C5">>>>,
      <<"psi;", <<"U+03C8">>>>,
      <<"puncsp;", <<"U+2008">>>>,
      <<"qfr;", <<"U+1D52E">>>>,
      <<"qint;", <<"U+2A0C">>>>,
      <<"qopf;", <<"U+1D562">>>>,
      <<"qprime;", <<"U+2057">>>>,
      <<"qscr;", <<"U+1D4C6">>>>,
      <<"quaternions;", <<"U+210D">>>>,
      <<"quatint;", <<"U+2A16">>>>,
      <<"quest;", <<"?">>>>,
      <<"questeq;", <<"U+225F">>>>,
      <<"quot", <<"\"">>>>,
      <<"quot;", <<"\"">>>>,
      <<"rAarr;", <<"U+21DB">>>>,
      <<"rArr;", <<"U+21D2">>>>,
      <<"rAtail;", <<"U+291C">>>>,
      <<"rBarr;", <<"U+290F">>>>,
      <<"rHar;", <<"U+2964">>>>,
      <<"race;", <<"U+223D", "U+0331">>>>,
      <<"racute;", <<"U+0155">>>>,
      <<"radic;", <<"U+221A">>>>,
      <<"raemptyv;", <<"U+29B3">>>>,
      <<"rang;", <<"U+27E9">>>>,
      <<"rangd;", <<"U+2992">>>>,
      <<"range;", <<"U+29A5">>>>,
      <<"rangle;", <<"U+27E9">>>>,
      <<"raquo", <<"U+00BB">>>>,
      <<"raquo;", <<"U+00BB">>>>,
      <<"rarr;", <<"U+2192">>>>,
      <<"rarrap;", <<"U+2975">>>>,
      <<"rarrb;", <<"U+21E5">>>>,
      <<"rarrbfs;", <<"U+2920">>>>,
      <<"rarrc;", <<"U+2933">>>>,
      <<"rarrfs;", <<"U+291E">>>>,
      <<"rarrhk;", <<"U+21AA">>>>,
      <<"rarrlp;", <<"U+21AC">>>>,
      <<"rarrpl;", <<"U+2945">>>>,
      <<"rarrsim;", <<"U+2974">>>>,
      <<"rarrtl;", <<"U+21A3">>>>,
      <<"rarrw;", <<"U+219D">>>>,
      <<"ratail;", <<"U+291A">>>>,
      <<"ratio;", <<"U+2236">>>>,
      <<"rationals;", <<"U+211A">>>>,
      <<"rbarr;", <<"U+290D">>>>,
      <<"rbbrk;", <<"U+2773">>>>,
      <<"rbrace;", <<"}">>>>,
      <<"rbrack;", <<"]">>>>,
      <<"rbrke;", <<"U+298C">>>>,
      <<"rbrksld;", <<"U+298E">>>>,
      <<"rbrkslu;", <<"U+2990">>>>,
      <<"rcaron;", <<"U+0159">>>>,
      <<"rcedil;", <<"U+0157">>>>,
      <<"rceil;", <<"U+2309">>>>,
      <<"rcub;", <<"}">>>>,
      <<"rcy;", <<"U+0440">>>>,
      <<"rdca;", <<"U+2937">>>>,
      <<"rdldhar;", <<"U+2969">>>>,
      <<"rdquo;", <<"U+201D">>>>,
      <<"rdquor;", <<"U+201D">>>>,
      <<"rdsh;", <<"U+21B3">>>>,
      <<"real;", <<"U+211C">>>>,
      <<"realine;", <<"U+211B">>>>,
      <<"realpart;", <<"U+211C">>>>,
      <<"reals;", <<"U+211D">>>>,
      <<"rect;", <<"U+25AD">>>>,
      <<"reg", <<"U+00AE">>>>,
      <<"reg;", <<"U+00AE">>>>,
      <<"rfisht;", <<"U+297D">>>>,
      <<"rfloor;", <<"U+230B">>>>,
      <<"rfr;", <<"U+1D52F">>>>,
      <<"rhard;", <<"U+21C1">>>>,
      <<"rharu;", <<"U+21C0">>>>,
      <<"rharul;", <<"U+296C">>>>,
      <<"rho;", <<"U+03C1">>>>,
      <<"rhov;", <<"U+03F1">>>>,
      <<"rightarrow;", <<"U+2192">>>>,
      <<"rightarrowtail;", <<"U+21A3">>>>,
      <<"rightharpoondown;", <<"U+21C1">>>>,
      <<"rightharpoonup;", <<"U+21C0">>>>,
      <<"rightleftarrows;", <<"U+21C4">>>>,
      <<"rightleftharpoons;", <<"U+21CC">>>>,
      <<"rightrightarrows;", <<"U+21C9">>>>,
      <<"rightsquigarrow;", <<"U+219D">>>>,
      <<"rightthreetimes;", <<"U+22CC">>>>,
      <<"ring;", <<"U+02DA">>>>,
      <<"risingdotseq;", <<"U+2253">>>>,
      <<"rlarr;", <<"U+21C4">>>>,
      <<"rlhar;", <<"U+21CC">>>>,
      <<"rlm;", <<"U+200F">>>>,
      <<"rmoust;", <<"U+23B1">>>>,
      <<"rmoustache;", <<"U+23B1">>>>,
      <<"rnmid;", <<"U+2AEE">>>>,
      <<"roang;", <<"U+27ED">>>>,
      <<"roarr;", <<"U+21FE">>>>,
      <<"robrk;", <<"U+27E7">>>>,
      <<"ropar;", <<"U+2986">>>>,
      <<"ropf;", <<"U+1D563">>>>,
      <<"roplus;", <<"U+2A2E">>>>,
      <<"rotimes;", <<"U+2A35">>>>,
      <<"rpar;", <<")">>>>,
      <<"rpargt;", <<"U+2994">>>>,
      <<"rppolint;", <<"U+2A12">>>>,
      <<"rrarr;", <<"U+21C9">>>>,
      <<"rsaquo;", <<"U+203A">>>>,
      <<"rscr;", <<"U+1D4C7">>>>,
      <<"rsh;", <<"U+21B1">>>>,
      <<"rsqb;", <<"]">>>>,
      <<"rsquo;", <<"U+2019">>>>,
      <<"rsquor;", <<"U+2019">>>>,
      <<"rthree;", <<"U+22CC">>>>,
      <<"rtimes;", <<"U+22CA">>>>,
      <<"rtri;", <<"U+25B9">>>>,
      <<"rtrie;", <<"U+22B5">>>>,
      <<"rtrif;", <<"U+25B8">>>>,
      <<"rtriltri;", <<"U+29CE">>>>,
      <<"ruluhar;", <<"U+2968">>>>,
      <<"rx;", <<"U+211E">>>>,
      <<"sacute;", <<"U+015B">>>>,
      <<"sbquo;", <<"U+201A">>>>,
      <<"sc;", <<"U+227B">>>>,
      <<"scE;", <<"U+2AB4">>>>,
      <<"scap;", <<"U+2AB8">>>>,
      <<"scaron;", <<"U+0161">>>>,
      <<"sccue;", <<"U+227D">>>>,
      <<"sce;", <<"U+2AB0">>>>,
      <<"scedil;", <<"U+015F">>>>,
      <<"scirc;", <<"U+015D">>>>,
      <<"scnE;", <<"U+2AB6">>>>,
      <<"scnap;", <<"U+2ABA">>>>,
      <<"scnsim;", <<"U+22E9">>>>,
      <<"scpolint;", <<"U+2A13">>>>,
      <<"scsim;", <<"U+227F">>>>,
      <<"scy;", <<"U+0441">>>>,
      <<"sdot;", <<"U+22C5">>>>,
      <<"sdotb;", <<"U+22A1">>>>,
      <<"sdote;", <<"U+2A66">>>>,
      <<"seArr;", <<"U+21D8">>>>,
      <<"searhk;", <<"U+2925">>>>,
      <<"searr;", <<"U+2198">>>>,
      <<"searrow;", <<"U+2198">>>>,
      <<"sect", <<"U+00A7">>>>,
      <<"sect;", <<"U+00A7">>>>,
      <<"semi;", <<";">>>>,
      <<"seswar;", <<"U+2929">>>>,
      <<"setminus;", <<"U+2216">>>>,
      <<"setmn;", <<"U+2216">>>>,
      <<"sext;", <<"U+2736">>>>,
      <<"sfr;", <<"U+1D530">>>>,
      <<"sfrown;", <<"U+2322">>>>,
      <<"sharp;", <<"U+266F">>>>,
      <<"shchcy;", <<"U+0449">>>>,
      <<"shcy;", <<"U+0448">>>>,
      <<"shortmid;", <<"U+2223">>>>,
      <<"shortparallel;", <<"U+2225">>>>,
      <<"shy", <<"U+00AD">>>>,
      <<"shy;", <<"U+00AD">>>>,
      <<"sigma;", <<"U+03C3">>>>,
      <<"sigmaf;", <<"U+03C2">>>>,
      <<"sigmav;", <<"U+03C2">>>>,
      <<"sim;", <<"U+223C">>>>,
      <<"simdot;", <<"U+2A6A">>>>,
      <<"sime;", <<"U+2243">>>>,
      <<"simeq;", <<"U+2243">>>>,
      <<"simg;", <<"U+2A9E">>>>,
      <<"simgE;", <<"U+2AA0">>>>,
      <<"siml;", <<"U+2A9D">>>>,
      <<"simlE;", <<"U+2A9F">>>>,
      <<"simne;", <<"U+2246">>>>,
      <<"simplus;", <<"U+2A24">>>>,
      <<"simrarr;", <<"U+2972">>>>,
      <<"slarr;", <<"U+2190">>>>,
      <<"smallsetminus;", <<"U+2216">>>>,
      <<"smashp;", <<"U+2A33">>>>,
      <<"smeparsl;", <<"U+29E4">>>>,
      <<"smid;", <<"U+2223">>>>,
      <<"smile;", <<"U+2323">>>>,
      <<"smt;", <<"U+2AAA">>>>,
      <<"smte;", <<"U+2AAC">>>>,
      <<"smtes;", <<"U+2AAC", "U+FE00">>>>,
      <<"softcy;", <<"U+044C">>>>,
      <<"sol;", <<"/">>>>,
      <<"solb;", <<"U+29C4">>>>,
      <<"solbar;", <<"U+233F">>>>,
      <<"sopf;", <<"U+1D564">>>>,
      <<"spades;", <<"U+2660">>>>,
      <<"spadesuit;", <<"U+2660">>>>,
      <<"spar;", <<"U+2225">>>>,
      <<"sqcap;", <<"U+2293">>>>,
      <<"sqcaps;", <<"U+2293", "U+FE00">>>>,
      <<"sqcup;", <<"U+2294">>>>,
      <<"sqcups;", <<"U+2294", "U+FE00">>>>,
      <<"sqsub;", <<"U+228F">>>>,
      <<"sqsube;", <<"U+2291">>>>,
      <<"sqsubset;", <<"U+228F">>>>,
      <<"sqsubseteq;", <<"U+2291">>>>,
      <<"sqsup;", <<"U+2290">>>>,
      <<"sqsupe;", <<"U+2292">>>>,
      <<"sqsupset;", <<"U+2290">>>>,
      <<"sqsupseteq;", <<"U+2292">>>>,
      <<"squ;", <<"U+25A1">>>>,
      <<"square;", <<"U+25A1">>>>,
      <<"squarf;", <<"U+25AA">>>>,
      <<"squf;", <<"U+25AA">>>>,
      <<"srarr;", <<"U+2192">>>>,
      <<"sscr;", <<"U+1D4C8">>>>,
      <<"ssetmn;", <<"U+2216">>>>,
      <<"ssmile;", <<"U+2323">>>>,
      <<"sstarf;", <<"U+22C6">>>>,
      <<"star;", <<"U+2606">>>>,
      <<"starf;", <<"U+2605">>>>,
      <<"straightepsilon;", <<"U+03F5">>>>,
      <<"straightphi;", <<"U+03D5">>>>,
      <<"strns;", <<"U+00AF">>>>,
      <<"sub;", <<"U+2282">>>>,
      <<"subE;", <<"U+2AC5">>>>,
      <<"subdot;", <<"U+2ABD">>>>,
      <<"sube;", <<"U+2286">>>>,
      <<"subedot;", <<"U+2AC3">>>>,
      <<"submult;", <<"U+2AC1">>>>,
      <<"subnE;", <<"U+2ACB">>>>,
      <<"subne;", <<"U+228A">>>>,
      <<"subplus;", <<"U+2ABF">>>>,
      <<"subrarr;", <<"U+2979">>>>,
      <<"subset;", <<"U+2282">>>>,
      <<"subseteq;", <<"U+2286">>>>,
      <<"subseteqq;", <<"U+2AC5">>>>,
      <<"subsetneq;", <<"U+228A">>>>,
      <<"subsetneqq;", <<"U+2ACB">>>>,
      <<"subsim;", <<"U+2AC7">>>>,
      <<"subsub;", <<"U+2AD5">>>>,
      <<"subsup;", <<"U+2AD3">>>>,
      <<"succ;", <<"U+227B">>>>,
      <<"succapprox;", <<"U+2AB8">>>>,
      <<"succcurlyeq;", <<"U+227D">>>>,
      <<"succeq;", <<"U+2AB0">>>>,
      <<"succnapprox;", <<"U+2ABA">>>>,
      <<"succneqq;", <<"U+2AB6">>>>,
      <<"succnsim;", <<"U+22E9">>>>,
      <<"succsim;", <<"U+227F">>>>,
      <<"sum;", <<"U+2211">>>>,
      <<"sung;", <<"U+266A">>>>,
      <<"sup1", <<"U+00B9">>>>,
      <<"sup1;", <<"U+00B9">>>>,
      <<"sup2", <<"U+00B2">>>>,
      <<"sup2;", <<"U+00B2">>>>,
      <<"sup3", <<"U+00B3">>>>,
      <<"sup3;", <<"U+00B3">>>>,
      <<"sup;", <<"U+2283">>>>,
      <<"supE;", <<"U+2AC6">>>>,
      <<"supdot;", <<"U+2ABE">>>>,
      <<"supdsub;", <<"U+2AD8">>>>,
      <<"supe;", <<"U+2287">>>>,
      <<"supedot;", <<"U+2AC4">>>>,
      <<"suphsol;", <<"U+27C9">>>>,
      <<"suphsub;", <<"U+2AD7">>>>,
      <<"suplarr;", <<"U+297B">>>>,
      <<"supmult;", <<"U+2AC2">>>>,
      <<"supnE;", <<"U+2ACC">>>>,
      <<"supne;", <<"U+228B">>>>,
      <<"supplus;", <<"U+2AC0">>>>,
      <<"supset;", <<"U+2283">>>>,
      <<"supseteq;", <<"U+2287">>>>,
      <<"supseteqq;", <<"U+2AC6">>>>,
      <<"supsetneq;", <<"U+228B">>>>,
      <<"supsetneqq;", <<"U+2ACC">>>>,
      <<"supsim;", <<"U+2AC8">>>>,
      <<"supsub;", <<"U+2AD4">>>>,
      <<"supsup;", <<"U+2AD6">>>>,
      <<"swArr;", <<"U+21D9">>>>,
      <<"swarhk;", <<"U+2926">>>>,
      <<"swarr;", <<"U+2199">>>>,
      <<"swarrow;", <<"U+2199">>>>,
      <<"swnwar;", <<"U+292A">>>>,
      <<"szlig", <<"U+00DF">>>>,
      <<"szlig;", <<"U+00DF">>>>,
      <<"target;", <<"U+2316">>>>,
      <<"tau;", <<"U+03C4">>>>,
      <<"tbrk;", <<"U+23B4">>>>,
      <<"tcaron;", <<"U+0165">>>>,
      <<"tcedil;", <<"U+0163">>>>,
      <<"tcy;", <<"U+0442">>>>,
      <<"tdot;", <<"U+20DB">>>>,
      <<"telrec;", <<"U+2315">>>>,
      <<"tfr;", <<"U+1D531">>>>,
      <<"there4;", <<"U+2234">>>>,
      <<"therefore;", <<"U+2234">>>>,
      <<"theta;", <<"U+03B8">>>>,
      <<"thetasym;", <<"U+03D1">>>>,
      <<"thetav;", <<"U+03D1">>>>,
      <<"thickapprox;", <<"U+2248">>>>,
      <<"thicksim;", <<"U+223C">>>>,
      <<"thinsp;", <<"U+2009">>>>,
      <<"thkap;", <<"U+2248">>>>,
      <<"thksim;", <<"U+223C">>>>,
      <<"thorn", <<"U+00FE">>>>,
      <<"thorn;", <<"U+00FE">>>>,
      <<"tilde;", <<"U+02DC">>>>,
      <<"times", <<"U+00D7">>>>,
      <<"times;", <<"U+00D7">>>>,
      <<"timesb;", <<"U+22A0">>>>,
      <<"timesbar;", <<"U+2A31">>>>,
      <<"timesd;", <<"U+2A30">>>>,
      <<"tint;", <<"U+222D">>>>,
      <<"toea;", <<"U+2928">>>>,
      <<"top;", <<"U+22A4">>>>,
      <<"topbot;", <<"U+2336">>>>,
      <<"topcir;", <<"U+2AF1">>>>,
      <<"topf;", <<"U+1D565">>>>,
      <<"topfork;", <<"U+2ADA">>>>,
      <<"tosa;", <<"U+2929">>>>,
      <<"tprime;", <<"U+2034">>>>,
      <<"trade;", <<"U+2122">>>>,
      <<"triangle;", <<"U+25B5">>>>,
      <<"triangledown;", <<"U+25BF">>>>,
      <<"triangleleft;", <<"U+25C3">>>>,
      <<"trianglelefteq;", <<"U+22B4">>>>,
      <<"triangleq;", <<"U+225C">>>>,
      <<"triangleright;", <<"U+25B9">>>>,
      <<"trianglerighteq;", <<"U+22B5">>>>,
      <<"tridot;", <<"U+25EC">>>>,
      <<"trie;", <<"U+225C">>>>,
      <<"triminus;", <<"U+2A3A">>>>,
      <<"triplus;", <<"U+2A39">>>>,
      <<"trisb;", <<"U+29CD">>>>,
      <<"tritime;", <<"U+2A3B">>>>,
      <<"trpezium;", <<"U+23E2">>>>,
      <<"tscr;", <<"U+1D4C9">>>>,
      <<"tscy;", <<"U+0446">>>>,
      <<"tshcy;", <<"U+045B">>>>,
      <<"tstrok;", <<"U+0167">>>>,
      <<"twixt;", <<"U+226C">>>>,
      <<"twoheadleftarrow;", <<"U+219E">>>>,
      <<"twoheadrightarrow;", <<"U+21A0">>>>,
      <<"uArr;", <<"U+21D1">>>>,
      <<"uHar;", <<"U+2963">>>>,
      <<"uacute", <<"U+00FA">>>>,
      <<"uacute;", <<"U+00FA">>>>,
      <<"uarr;", <<"U+2191">>>>,
      <<"ubrcy;", <<"U+045E">>>>,
      <<"ubreve;", <<"U+016D">>>>,
      <<"ucirc", <<"U+00FB">>>>,
      <<"ucirc;", <<"U+00FB">>>>,
      <<"ucy;", <<"U+0443">>>>,
      <<"udarr;", <<"U+21C5">>>>,
      <<"udblac;", <<"U+0171">>>>,
      <<"udhar;", <<"U+296E">>>>,
      <<"ufisht;", <<"U+297E">>>>,
      <<"ufr;", <<"U+1D532">>>>,
      <<"ugrave", <<"U+00F9">>>>,
      <<"ugrave;", <<"U+00F9">>>>,
      <<"uharl;", <<"U+21BF">>>>,
      <<"uharr;", <<"U+21BE">>>>,
      <<"uhblk;", <<"U+2580">>>>,
      <<"ulcorn;", <<"U+231C">>>>,
      <<"ulcorner;", <<"U+231C">>>>,
      <<"ulcrop;", <<"U+230F">>>>,
      <<"ultri;", <<"U+25F8">>>>,
      <<"umacr;", <<"U+016B">>>>,
      <<"uml", <<"U+00A8">>>>,
      <<"uml;", <<"U+00A8">>>>,
      <<"uogon;", <<"U+0173">>>>,
      <<"uopf;", <<"U+1D566">>>>,
      <<"uparrow;", <<"U+2191">>>>,
      <<"updownarrow;", <<"U+2195">>>>,
      <<"upharpoonleft;", <<"U+21BF">>>>,
      <<"upharpoonright;", <<"U+21BE">>>>,
      <<"uplus;", <<"U+228E">>>>,
      <<"upsi;", <<"U+03C5">>>>,
      <<"upsih;", <<"U+03D2">>>>,
      <<"upsilon;", <<"U+03C5">>>>,
      <<"upuparrows;", <<"U+21C8">>>>,
      <<"urcorn;", <<"U+231D">>>>,
      <<"urcorner;", <<"U+231D">>>>,
      <<"urcrop;", <<"U+230E">>>>,
      <<"uring;", <<"U+016F">>>>,
      <<"urtri;", <<"U+25F9">>>>,
      <<"uscr;", <<"U+1D4CA">>>>,
      <<"utdot;", <<"U+22F0">>>>,
      <<"utilde;", <<"U+0169">>>>,
      <<"utri;", <<"U+25B5">>>>,
      <<"utrif;", <<"U+25B4">>>>,
      <<"uuarr;", <<"U+21C8">>>>,
      <<"uuml", <<"U+00FC">>>>,
      <<"uuml;", <<"U+00FC">>>>,
      <<"uwangle;", <<"U+29A7">>>>,
      <<"vArr;", <<"U+21D5">>>>,
      <<"vBar;", <<"U+2AE8">>>>,
      <<"vBarv;", <<"U+2AE9">>>>,
      <<"vDash;", <<"U+22A8">>>>,
      <<"vangrt;", <<"U+299C">>>>,
      <<"varepsilon;", <<"U+03F5">>>>,
      <<"varkappa;", <<"U+03F0">>>>,
      <<"varnothing;", <<"U+2205">>>>,
      <<"varphi;", <<"U+03D5">>>>,
      <<"varpi;", <<"U+03D6">>>>,
      <<"varpropto;", <<"U+221D">>>>,
      <<"varr;", <<"U+2195">>>>,
      <<"varrho;", <<"U+03F1">>>>,
      <<"varsigma;", <<"U+03C2">>>>,
      <<"varsubsetneq;", <<"U+228A", "U+FE00">>>>,
      <<"varsubsetneqq;", <<"U+2ACB", "U+FE00">>>>,
      <<"varsupsetneq;", <<"U+228B", "U+FE00">>>>,
      <<"varsupsetneqq;", <<"U+2ACC", "U+FE00">>>>,
      <<"vartheta;", <<"U+03D1">>>>,
      <<"vartriangleleft;", <<"U+22B2">>>>,
      <<"vartriangleright;", <<"U+22B3">>>>,
      <<"vcy;", <<"U+0432">>>>,
      <<"vdash;", <<"U+22A2">>>>,
      <<"vee;", <<"U+2228">>>>,
      <<"veebar;", <<"U+22BB">>>>,
      <<"veeeq;", <<"U+225A">>>>,
      <<"vellip;", <<"U+22EE">>>>,
      <<"verbar;", <<"|">>>>,
      <<"vert;", <<"|">>>>,
      <<"vfr;", <<"U+1D533">>>>,
      <<"vltri;", <<"U+22B2">>>>,
      <<"vnsub;", <<"U+2282", "U+20D2">>>>,
      <<"vnsup;", <<"U+2283", "U+20D2">>>>,
      <<"vopf;", <<"U+1D567">>>>,
      <<"vprop;", <<"U+221D">>>>,
      <<"vrtri;", <<"U+22B3">>>>,
      <<"vscr;", <<"U+1D4CB">>>>,
      <<"vsubnE;", <<"U+2ACB", "U+FE00">>>>,
      <<"vsubne;", <<"U+228A", "U+FE00">>>>,
      <<"vsupnE;", <<"U+2ACC", "U+FE00">>>>,
      <<"vsupne;", <<"U+228B", "U+FE00">>>>,
      <<"vzigzag;", <<"U+299A">>>>,
      <<"wcirc;", <<"U+0175">>>>,
      <<"wedbar;", <<"U+2A5F">>>>,
      <<"wedge;", <<"U+2227">>>>,
      <<"wedgeq;", <<"U+2259">>>>,
      <<"weierp;", <<"U+2118">>>>,
      <<"wfr;", <<"U+1D534">>>>,
      <<"wopf;", <<"U+1D568">>>>,
      <<"wp;", <<"U+2118">>>>,
      <<"wr;", <<"U+2240">>>>,
      <<"wreath;", <<"U+2240">>>>,
      <<"wscr;", <<"U+1D4CC">>>>,
      <<"xcap;", <<"U+22C2">>>>,
      <<"xcirc;", <<"U+25EF">>>>,
      <<"xcup;", <<"U+22C3">>>>,
      <<"xdtri;", <<"U+25BD">>>>,
      <<"xfr;", <<"U+1D535">>>>,
      <<"xhArr;", <<"U+27FA">>>>,
      <<"xharr;", <<"U+27F7">>>>,
      <<"xi;", <<"U+03BE">>>>,
      <<"xlArr;", <<"U+27F8">>>>,
      <<"xlarr;", <<"U+27F5">>>>,
      <<"xmap;", <<"U+27FC">>>>,
      <<"xnis;", <<"U+22FB">>>>,
      <<"xodot;", <<"U+2A00">>>>,
      <<"xopf;", <<"U+1D569">>>>,
      <<"xoplus;", <<"U+2A01">>>>,
      <<"xotime;", <<"U+2A02">>>>,
      <<"xrArr;", <<"U+27F9">>>>,
      <<"xrarr;", <<"U+27F6">>>>,
      <<"xscr;", <<"U+1D4CD">>>>,
      <<"xsqcup;", <<"U+2A06">>>>,
      <<"xuplus;", <<"U+2A04">>>>,
      <<"xutri;", <<"U+25B3">>>>,
      <<"xvee;", <<"U+22C1">>>>,
      <<"xwedge;", <<"U+22C0">>>>,
      <<"yacute", <<"U+00FD">>>>,
      <<"yacute;", <<"U+00FD">>>>,
      <<"yacy;", <<"U+044F">>>>,
      <<"ycirc;", <<"U+0177">>>>,
      <<"ycy;", <<"U+044B">>>>,
      <<"yen", <<"U+00A5">>>>,
      <<"yen;", <<"U+00A5">>>>,
      <<"yfr;", <<"U+1D536">>>>,
      <<"yicy;", <<"U+0457">>>>,
      <<"yopf;", <<"U+1D56A">>>>,
      <<"yscr;", <<"U+1D4CE">>>>,
      <<"yucy;", <<"U+044E">>>>,
      <<"yuml", <<"U+00FF">>>>,
      <<"yuml;", <<"U+00FF">>>>,
      <<"zacute;", <<"U+017A">>>>,
      <<"zcaron;", <<"U+017E">>>>,
      <<"zcy;", <<"U+0437">>>>,
      <<"zdot;", <<"U+017C">>>>,
      <<"zeetrf;", <<"U+2128">>>>,
      <<"zeta;", <<"U+03B6">>>>,
      <<"zfr;", <<"U+1D537">>>>,
      <<"zhcy;", <<"U+0436">>>>,
      <<"zigrarr;", <<"U+21DD">>>>,
      <<"zopf;", <<"U+1D56B">>>>,
      <<"zscr;", <<"U+1D4CF">>>>,
      <<"zwj;", <<"U+200D">>>>,
      <<"zwnj;", <<"U+200C">>>>
   >>

html5 == dict(html5_items)

\* html._invalid_charrefs as pairs <<code, code of the replacement>>
invalid_charrefs ==
   {
      <<0, 65533>>,
      <<13, 13>>,
      <<128, 8364>>,
      <<129, 129>>,
      <<130, 8218>>,
      <<131, 402>>,
      <<132, 8222>>,
      <<133, 8230>>,
      <<134, 8224>>,
      <<135, 8225>>,
      <<136, 710>>,
      <<137, 8240>>,
      <<138, 352>>,
      <<139, 8249>>,
      <<140, 338>>,
      <<141, 141>>,
      <<142, 381>>,
      <<143, 143>>,
      <<144, 144>>,
      <<145, 8216>>,
      <<146, 8217>>,
      <<147, 8220>>,
      <<148, 8221>>,
      <<149, 8226>>,
      <<150, 8211>>,
      <<151, 8212>>,
      <<152, 732>>,
      <<153, 8482>>,
      <<154, 353>>,
      <<155, 8250>>,
      <<156, 339>>,
      <<157, 157>>,
      <<158, 382>>,
      <<159, 376>>
   }

\* html._invalid_codepoints
invalid_codepoints ==
   (1..8) \cup
   {11} \cup
   (14..31) \cup
   (127..159) \cup
   (64976..65007) \cup
   (65534..65535) \cup
   (131070..131071) \cup
   (196606..196607) \cup
   (262142..262143) \cup
   (327678..327679) \cup
   (393214..393215) \cup
   (458750..458751) \cup
   (524286..524287) \cup
   (589822..589823) \cup
   (655358..655359) \cup
   (720894..720895) \cup
   (786430..786431) \cup
   (851966..851967) \cup
   (917502..917503) \cup
   (983038..983039) \cup
   (1048574..1048575) \cup
   (1114110..1114111)

\* [^\t\n\f <&#;]
NOT_NAME_CHARS == {"\t", "\n", "\f", " ", "<", "&", "#", ";"}

\* the length of the longest run of characters of s, from s[1], that are
\* not in chars_excluded, up to max
RECURSIVE run_length(_, _, _)
run_length(s, chars_excluded, max) ==
   IF s = <<>> \/ max = 0 \/ Head(s) \in chars_excluded THEN 0
   ELSE 1 + run_length(Tail(s), chars_excluded, max - 1)

\* the length of the group the pattern matches in s, the text after an
\* "&"; 0 when the pattern does not match there
charref_length(s) ==
   IF s = <<>> THEN 0
   ELSE IF s[1] = "#"
        THEN LET d == run_in(Tail(s), DIGITS)
                 h == IF Len(s) >= 2 /\ s[2] \in {"x", "X"}
                      THEN run_in(From(s, 3), HEX_DIGITS) ELSE 0
             IN  IF d > 0
                 THEN IF Len(s) > d + 1 /\ s[d + 2] = ";" THEN d + 2
                      ELSE d + 1
                 ELSE IF h > 0
                      THEN IF Len(s) > h + 2 /\ s[h + 3] = ";" THEN h + 3
                           ELSE h + 2
                      ELSE 0
        ELSE LET n == run_length(s, NOT_NAME_CHARS, 32)
             IN  IF n = 0 THEN 0
                 ELSE IF Len(s) > n /\ s[n + 1] = ";" THEN n + 1 ELSE n

\* what _replace_charref returns for the number of a numeric reference
numeric_charref(num) ==
   IF \E pair \in invalid_charrefs : pair[1] = num
   THEN <<Chr((CHOOSE pair \in invalid_charrefs : pair[1] = num)[2])>>
   ELSE IF (55296 <= num /\ num <= 57343) \/ num > 1114111
        THEN <<"U+FFFD">>
        ELSE IF num \in invalid_codepoints THEN <<>>
             ELSE <<Chr(num)>>

\* "".join(s)
RECURSIVE join(_)
join(s) == IF s = <<>> THEN "" ELSE Head(s) \o join(Tail(s))

\* the longest x with s[:x] a name: len(s) itself, tried first, or one of
\* len(s) - 1 down to 2; 0 when none
longest_prefix(s, names) ==
   LET xs == {x \in 1..Len(s) :
                 (x = Len(s) \/ x >= 2) /\ join(SubSeq(s, 1, x)) \in names}
   IN  IF xs = {} THEN 0 ELSE CHOOSE x \in xs : \A y \in xs : y <= x

\* what _replace_charref returns for a named reference, x being the length
\* of the name found in it
named_charref(s, table, x) ==
   IF x = 0 THEN <<"&">> \o s
   ELSE table[join(SubSeq(s, 1, x))] \o From(s, x + 1)

lookup_charref(s, table) == named_charref(s, table, longest_prefix(s, DOMAIN table))

\* the character of a numeric reference, or the ValueError of int
numeric(num) ==
   IF num.error = "none"
   THEN [error |-> "none", text |-> numeric_charref(num.value)]
   ELSE [error |-> "ValueError"]

\* _replace_charref(s): the replacement, or the exception it raises
replace_charref(s) ==
   IF s[1] = "#"
   THEN IF s[2] \in {"x", "X"}
        THEN numeric(int(rstrip(From(s, 3), {";"}), 16, 1114112))
        ELSE numeric(int(rstrip(Tail(s), {";"}), 10, 1114112))
   ELSE [error |-> "none", text |-> lookup_charref(s, html5)]

\* the text that begins with replaced and goes on with rest, or the first
\* exception of the two
sub_join(replaced, rest) ==
   IF replaced.error # "none" THEN replaced
   ELSE IF rest.error # "none" THEN rest
        ELSE [error |-> "none", text |-> replaced.text \o rest.text]

\* html.unescape(s): the text, or the exception a replacement raises
RECURSIVE html_unescape(_)
html_unescape(s) ==
   IF s = <<>> THEN [error |-> "none", text |-> <<>>]
   ELSE IF Head(s) = "&" /\ charref_length(Tail(s)) > 0
        THEN LET n == charref_length(Tail(s))
             IN  sub_join(replace_charref(SubSeq(s, 2, n + 1)),
                          html_unescape(From(s, n + 2)))
        ELSE sub_join([error |-> "none", text |-> <<Head(s)>>],
                      html_unescape(Tail(s)))

\* lines 59-61 of extract_text on what readability returned
clean_text(title, summary) ==
   html_unescape(re_sub_CLEAN(title \o <<"\n">> \o summary))

(***************************************************************************)
(* The HTTP session of get_session: Retry(connect=3, backoff_factor=0.5)   *)
(* mounted on http:// and https://.  The other counters of urllib3's Retry *)
(* keep their defaults: total is 10, read, status and other are None, no   *)
(* status is in status_forcelist, and Retry-After is respected.            *)
(***************************************************************************)
\* Retry(connect=3, ...)
RetryConnect == 3
\* the total that Retry(...) takes when none is given
RetryTotal == 10

RETRY_AFTER_STATUS_CODES == {413, 429, 503}

get_session == [total |-> RetryTotal, connect |-> RetryConnect]

\* Retry.increment: total always, connect on a connection error (read,
\* status and other are None and stay None)
increment(retry, cause) ==
   [total |-> retry.total - 1,
    connect |-> IF cause = "connect" THEN retry.connect - 1
                ELSE retry.connect]

\* Retry.is_exhausted: the least of the counters that are neither None nor
\* 0 is negative
is_exhausted(retry) ==
   \E x \in {retry.total, retry.connect} : x < 0

\* Retry.is_retry for a GET: status_forcelist is empty, so only a
\* Retry-After header on 413, 429 or 503 asks for a retry
is_retry(retry, status_code, has_retry_after) ==
   /\ retry.total # 0
   /\ has_retry_after
   /\ status_code \in RETRY_AFTER_STATUS_CODES

\* Response.raise_for_status raises HTTPError on 4xx and 5xx
raise_for_status(status_code) == status_code >= 400 /\ status_code < 600

(***************************************************************************)
(* What readability's Document makes of a response body: a title and a     *)
(* summary, or an exception.                                               *)
(***************************************************************************)
DOCS ==
   [body \in {"article", "moved"} |->
      IF body = "article"
      THEN [title |-> <<"T">>,
            summary |-> <<"<", "p", ">", "a", " ", "&", "a", "m", "p", ";", " ", "b", "<", "/", "p", ">">>]
      ELSE [title |-> <<"M">>,
            summary |-> <<"<", "a", ">", "h", "e", "r", "e", "<", "/", "a", ">">>]]

BODIES == DOMAIN DOCS \cup {"unparseable"}

(***************************************************************************)
(* extract_text(session, url) once session.get has ended with outcome: an  *)
(* exception of requests, or a response.  The result is the text returned  *)
(* or the exception that leaves extract_text.                              *)
(***************************************************************************)
\* lines 61-66: the text html.unescape gave is returned, its exception is
\* caught by "except Exception" and the empty text returned
returned(cleaned) == IF cleaned.error = "none" THEN cleaned.text ELSE <<>>

extract_text(url, outcome) ==
   IF ~is_url(url) THEN [raised |-> "ValueError", text |-> <<>>]
   \* except requests.RequestException: ConnectionError, RetryError
   ELSE IF outcome.kind = "exception" THEN [raised |-> "none", text |-> <<>>]
   \* HTTPError is a RequestException
   ELSE IF raise_for_status(outcome.status)
        THEN [raised |-> "none", text |-> <<>>]
   \* except Exception
   ELSE IF outcome.body = "unparseable"
        THEN [raised |-> "none", text |-> <<>>]
   ELSE [raised |-> "none",
         text |-> returned(clean_text(DOCS[outcome.body].title,
                                      DOCS[outcome.body].summary))]

(***************************************************************************)
(* WebTextExtractor.__init__ in an environment: whether the input file     *)
(* exists, its suffix, what the output path is, whether it is the default  *)
(* path, and what the user answers when asked.                             *)
(***************************************************************************)
CONFIRM_STRINGS == {<<"y">>, <<"y", "e", "s">>}

\* what the user types: "y", "YES", "n", and "YES" in fullwidth letters,
\* which lower() turns into fullwidth "yes"
ANSWERS ==
   {<<"y">>, <<"Y", "E", "S">>, <<"n">>, <<"U+FF39", "U+FF25", "U+FF33">>}

SUFFIXES == {FILETYPE, <<".", "c", "s", "v">>}

\* lines 106-118: the directory the run writes to, made when missing
init_output(env) ==
   LET missing == env.output = "missing"
       confirm_mkdir == lower(env.answer) \in CONFIRM_STRINGS
       fallback == missing /\ ~env.is_default /\ ~confirm_mkdir
   IN  [mkdirs |-> IF missing THEN <<"mkdirs">> ELSE <<>>,
        output_path |-> IF fallback \/ env.is_default THEN "default"
                        ELSE "given"]

\* get_session() called before the checks
init_session_first(env) ==
   IF ~env.file_exists
   THEN [error |-> "does not exist", effects |-> <<"get_session">>,
         output_path |-> "given"]
   ELSE IF env.suffix # FILETYPE
   THEN [error |-> "is not a text file", effects |-> <<"get_session">>,
         output_path |-> "given"]
   ELSE IF env.output = "file"
   THEN [error |-> "is not a directory", effects |-> <<"get_session">>,
         output_path |-> "given"]
   ELSE [error |-> "none",
         effects |-> <<"get_session">> \o init_output(env).mkdirs,
         output_path |-> init_output(env).output_path]

init(env) ==
   IF ~env.file_exists
   THEN [error |-> "does not exist", effects |-> <<>>,
         output_path |-> "given"]
   ELSE IF env.suffix # FILETYPE
   THEN [error |-> "is not a text file", effects |-> <<>>,
         output_path |-> "given"]
   ELSE IF env.output = "file"
   THEN [error |-> "is not a directory", effects |-> <<>>,
         output_path |-> "given"]
   ELSE [error |-> "none",
         effects |-> init_output(env).mkdirs \o <<"get_session">>,
         output_path |-> init_output(env).output_path]

(***************************************************************************)
(* The output directory: the text of each file by name, and the names      *)
(* opened for writing in this run of read.                                 *)
(***************************************************************************)
EMPTY_DIR == [files |-> <<>>, written |-> {}]

\* the longest file name, in bytes, the file system of the output directory
\* takes
NAME_MAX == 255

\* os.fsencode(name): the bytes of the name handed to the file system
fsencode(name) == str_encode(name, "surrogateescape")

\* the exception of open for a name with these bytes: a NUL is refused by
\* Python itself, more than NAME_MAX bytes by the file system
open_bytes(name, encoding) ==
   IF encoding.error # "none" THEN encoding.error
   ELSE IF Contains(name, "U+0000") THEN "ValueError"
   ELSE IF Len(encoding.bytes) > NAME_MAX THEN "OSError"
   ELSE "none"

\* open(self.output_path / name, "w"): the exception it raises
open_error(name) == open_bytes(name, fsencode(name))

\* the file opened with "a"
write_file_append(dir, name, text) ==
   IF open_error(name) # "none" THEN [error |-> open_error(name), dir |-> dir]
   ELSE [error |-> "none",
         dir |-> [files |-> [n \in DOMAIN dir.files \cup {name} |->
                               IF n # name THEN dir.files[n]
                               ELSE IF n \in DOMAIN dir.files
                                    THEN dir.files[n] \o text
                                    ELSE text],
                  written |-> dir.written \cup {name}]]

\* with open(self.output_path / name, "w") as output: output.write(text)
\* error is the exception that leaves the statement, dir the directory
\* after it
write_file(dir, name, text) ==
   IF open_error(name) # "none" THEN [error |-> open_error(name), dir |-> dir]
   ELSE [error |-> "none",
         dir |-> [files |-> [n \in DOMAIN dir.files \cup {name} |->
                               IF n = name THEN text ELSE dir.files[n]],
                  written |-> dir.written \cup {name}]]

\* the index of a line counted over the valid lines alone
enumerate_valid(urls, k) ==
   Cardinality({m \in 1..k : is_url(strip(urls[m]))})

\* enumerate(urls): the index of the line at 0-based position k
enumerate(urls, k) == k

(***************************************************************************)
(* The inputs of a run.                                                    *)
(***************************************************************************)
\* the lines readlines() returns: a URL, a URL between white space (a
\* form feed and spaces), a blank line, a line without scheme, a URL whose
\* host holds a NUL character, and a URL whose netloc is too long for a
\* file name.  Each URL among them is one session.get prepares and sends:
\* the scheme is http and the host name is ASCII.
LINE_AX == URL_AX \o <<"\n">>
LINE_AY == <<"\f", " ">> \o URL_AY \o <<" ", "\n">>
LINE_BLANK == <<"\n">>
LINE_NOSCHEME == URL_NOSCHEME \o <<"\n">>

LINE_NUL == URL_NUL \o <<"\n">>
LINE_LONG == URL_LONG \o <<"\n">>

LINES == {LINE_AX, LINE_AY, LINE_BLANK, LINE_NOSCHEME, LINE_NUL, LINE_LONG}

FILES == UNION {[1..n -> LINES] : n \in 0..MaxLines}

ENVS ==
   [file_exists : BOOLEAN, suffix : SUFFIXES,
    output : {"file", "dir", "missing"}, is_default : BOOLEAN,
    answer : ANSWERS, stale : BOOLEAN]

\* an output directory that holds a file of an earlier run
STALE_DIR ==
   [files |-> [n \in {generate_output_name(0, URL_AX)} |-> <<"o", "l", "d">>],
    written |-> {}]

\* where a redirect response points
REDIRECT_TARGET == URL_B

\* What a host does with the successive requests for one URL; the last
\* entry repeats.  refuse: the connection is not established.  drop: the
\* connection closes before any response.  hang: the connection is accepted
\* and nothing comes back.  Otherwise a response.
Response(status, retry_after, body) ==
   [kind |-> "response", status |-> status, retry_after |-> retry_after,
    body |-> body]

HOSTS ==
   [h \in {"ok", "unparseable", "not found", "moved", "moved bare",
           "refuses", "refuses once", "drops", "busy", "hangs"} |->
      CASE h = "ok" -> <<Response(200, FALSE, "article")>>
        [] h = "unparseable" -> <<Response(200, FALSE, "unparseable")>>
        [] h = "not found" -> <<Response(404, FALSE, "moved")>>
        [] h = "moved" -> <<Response(301, FALSE, "moved")>>
        [] h = "moved bare" -> <<Response(301, FALSE, "unparseable")>>
        [] h = "refuses" -> <<[kind |-> "refuse"]>>
        [] h = "refuses once" ->
              <<[kind |-> "refuse"], Response(200, FALSE, "article")>>
        [] h = "drops" -> <<[kind |-> "drop"]>>
        [] h = "busy" -> <<Response(503, TRUE, "moved")>>
        [] OTHER -> <<[kind |-> "hang"]>>]

\* what the host does with request number n
Event(h, n) == HOSTS[h][IF n < Len(HOSTS[h]) THEN n ELSE Len(HOSTS[h])]

NO_ITEM == [url |-> <<>>, host |-> "none", sends |-> 0, refused |-> 0,
            retry |-> get_session]

VARIABLES
   pc,          \* where main is: start, failed, constructed, loop, fetching,
                \* done, aborted
   error,       \* the message of the ValueError __init__ raised, or the
                \* exception that left read
   trace,       \* what __init__ did, in order: mkdirs, get_session
   output_path, \* self.output_path: given or default
   urls,        \* the lines of the input file
   pos,         \* the 0-based position of the loop in urls
   run,         \* 1, or 2 for a second run on the same file and directory
   hosts,       \* what the host of each line did in run 1
   item,        \* the request under way: its URL, host, requests sent,
                \* connections refused, and the Retry left
   requested,   \* the URLs requested so far
   dir,         \* the output directory
   results,     \* per item done in this run: position, URL, outcome, text
   first,       \* the output directory when run 1 ended
   calc         \* the pure function under check in CleanSpec and NameSpec

vars == <<pc, error, trace, output_path, urls, pos, run, hosts, item,
          requested, dir, results, first, calc>>

main_vars == <<pc, error, trace, output_path, urls, pos, run, hosts, item,
               requested, dir, results, first>>

MainInit ==
   /\ pc = "start"
   /\ error = "none"
   /\ trace = <<>>
   /\ output_path = "given"
   /\ urls = <<>>
   /\ pos = 0
   /\ run = 1
   /\ hosts = <<>>
   /\ item = NO_ITEM
   /\ requested = {}
   /\ dir = EMPTY_DIR
   /\ results = <<>>
   /\ first = EMPTY_DIR

Init == MainInit /\ calc = [op |-> "none"]

\* main, line 139: WebTextExtractor(file, output_path)
Construct ==
   /\ pc = "start"
   /\ \E env \in ENVS :
         LET r == init(env)
             made == r.effects # <<>> /\ r.effects[1] = "mkdirs"
                     /\ r.output_path = "given"
         IN  /\ error' = r.error
             /\ trace' = r.effects
             /\ output_path' = r.output_path
             /\ pc' = IF r.error = "none" THEN "constructed" ELSE "failed"
             /\ dir' = IF r.error = "none" /\ ~made /\ env.stale
                       THEN STALE_DIR ELSE EMPTY_DIR
   /\ UNCHANGED <<urls, pos, run, hosts, item, requested, results, first,
                  calc>>

\* read, lines 123-124: urls = f.readlines()
ReadOpen ==
   /\ pc = "constructed"
   /\ \E f \in FILES :
         /\ urls' = f
         /\ hosts' = [k \in 1..Len(f) |-> "none"]
   /\ pos' = 0
   /\ pc' = "loop"
   /\ UNCHANGED <<error, trace, output_path, run, item, requested, dir,
                  results, first, calc>>

\* the line the loop is at, stripped
Url == strip(urls[pos + 1])

\* read, lines 126-128: a line that is no URL is passed over
LoopSkip ==
   /\ pc = "loop"
   /\ pos < Len(urls)
   /\ ~is_url(Url)
   /\ pos' = pos + 1
   /\ UNCHANGED <<pc, error, trace, output_path, urls, run, hosts, item,
                  requested, dir, results, first, calc>>

\* read, line 130, extract_text, line 56: session.get(url) sends the first
\* request; in run 2 the host does what it did in run 1
LoopFetch ==
   /\ pc = "loop"
   /\ pos < Len(urls)
   /\ is_url(Url)
   /\ \E h \in DOMAIN HOSTS :
         /\ run = 2 => h = hosts[pos + 1]
         /\ hosts' = [hosts EXCEPT ![pos + 1] = h]
         /\ item' = [url |-> Url, host |-> h, sends |-> 1, refused |-> 0,
                     retry |-> get_session]
   /\ requested' = requested \cup {Url}
   /\ pc' = "fetching"
   /\ UNCHANGED <<error, trace, output_path, urls, pos, run, dir, results,
                  first, calc>>

\* urlopen retries: the same request is sent again
Resend(retry, refusals) ==
   /\ item' = [item EXCEPT !.sends = @ + 1, !.refused = @ + refusals,
                           !.retry = retry]
   /\ UNCHANGED <<pc, error, trace, output_path, urls, pos, run, hosts,
                  requested, dir, results, first, calc>>

\* the rest of read once the text is there, lines 131-133: the file is
\* named and written.  An exception of the write is caught nowhere: it
\* leaves read and main, and the lines that follow are not read.
Write(outcome, text, name, w) ==
   IF w.error # "none"
   THEN /\ pc' = "aborted"
        /\ error' = w.error
        /\ UNCHANGED <<pos, dir, results>>
   ELSE /\ pc' = "loop"
        /\ pos' = pos + 1
        /\ dir' = w.dir
        /\ results' = Append(results,
              [pos |-> pos, url |-> item.url, outcome |-> outcome,
               text |-> text, name |-> name])
        /\ UNCHANGED error

\* session.get ends with outcome: the rest of extract_text, then the rest
\* of read
Named(outcome, r, name) ==
   IF r.raised # "none"
   THEN /\ pc' = "aborted"
        /\ error' = r.raised
        /\ UNCHANGED <<pos, dir, results>>
   ELSE Write(outcome, r.text, name, write_file(dir, name, r.text))

Deliver(outcome, refusals) ==
   /\ item' = [item EXCEPT !.refused = @ + refusals]
   /\ Named(outcome, extract_text(item.url, outcome),
            generate_output_name(enumerate(urls, pos), item.url))
   /\ UNCHANGED <<trace, output_path, urls, run, hosts, requested, first,
                  calc>>

\* the connection is not established: NewConnectionError
NetRefuse ==
   /\ pc = "fetching"
   /\ Event(item.host, item.sends).kind = "refuse"
   /\ LET retry == increment(item.retry, "connect")
      IN  IF is_exhausted(retry)
          THEN Deliver([kind |-> "exception", exc |-> "ConnectionError"], 1)
          ELSE Resend(retry, 1)

\* the connection closes before a response: ProtocolError, a read error
NetDrop ==
   /\ pc = "fetching"
   /\ Event(item.host, item.sends).kind = "drop"
   /\ LET retry == increment(item.retry, "read")
      IN  IF is_exhausted(retry)
          THEN Deliver([kind |-> "exception", exc |-> "ConnectionError"], 0)
          ELSE Resend(retry, 0)

\* a response arrives; allow_redirects=False hands a 3xx response back
NetRespond ==
   /\ pc = "fetching"
   /\ Event(item.host, item.sends).kind = "response"
   /\ LET response == Event(item.host, item.sends)
          retry == increment(item.retry, "status")
      IN  IF is_retry(item.retry, response.status, response.retry_after)
          THEN IF is_exhausted(retry)
               THEN Deliver([kind |-> "exception", exc |-> "RetryError"], 0)
               ELSE Resend(retry, 0)
          ELSE Deliver(response, 0)

\* read, line 125: the loop is over
LoopEnd ==
   /\ pc = "loop"
   /\ pos = Len(urls)
   /\ pc' = "done"
   /\ UNCHANGED <<error, trace, output_path, urls, pos, run, hosts, item,
                  requested, dir, results, first, calc>>

\* main again, on the same input file and output directory
Rerun ==
   /\ pc = "done"
   /\ run = 1
   /\ run' = 2
   /\ first' = dir
   /\ dir' = [dir EXCEPT !.written = {}]
   /\ results' = <<>>
   /\ item' = NO_ITEM
   /\ pos' = 0
   /\ pc' = "loop"
   /\ UNCHANGED <<error, trace, output_path, urls, hosts, requested, calc>>

Next ==
   \/ Construct
   \/ ReadOpen
   \/ LoopSkip
   \/ LoopFetch
   \/ NetRefuse
   \/ NetDrop
   \/ NetRespond
   \/ LoopEnd
   \/ Rerun

Spec == Init /\ [][Next]_vars

(***************************************************************************)
(* NameSpec: generate_output_name on two indices and two URLs.             *)
(***************************************************************************)
NameInit ==
   /\ MainInit
   /\ calc \in [op : {"name"}, i : 0..MaxIndex, urlA : URLS,
                j : 0..MaxIndex, urlB : URLS, names : {<<>>}]

NameCall ==
   /\ calc.op = "name"
   /\ calc.names = <<>>
   /\ calc' = [calc EXCEPT !.names =
                  <<generate_output_name(calc.i, calc.urlA),
                    generate_output_name(calc.j, calc.urlB)>>]
   /\ UNCHANGED main_vars

NameNext == NameCall

NameSpec == NameInit /\ [][NameNext]_vars

(***************************************************************************)
(* CleanSpec: lines 59-61 of extract_text on a title and a summary put     *)
(* together from fragments of markup, text and character references.       *)
(***************************************************************************)
FRAGMENTS ==
   {<<"<">>,
    <<">">>,
    <<"\n">>,
    <<"p">>,
    <<"&", "l", "t", ";">>,
    <<"&", "g", "t", ";">>,
    <<"&", "a", "m", "p", ";">>,
    <<"a", "m", "p", ";">>,
    <<"&", "#", "3", "9", ";">>}

RECURSIVE Flatten(_)
Flatten(q) == IF q = <<>> THEN <<>> ELSE Head(q) \o Flatten(Tail(q))

SUMMARIES ==
   {Flatten(q) : q \in UNION {[1..n -> FRAGMENTS] : n \in 0..MaxFragments}}

TITLES == {<<>>, <<"p">>, <<"<">>}

CleanInit ==
   /\ MainInit
   /\ calc \in [op : {"clean"}, stage : {"document"}, title : TITLES,
                summary : SUMMARIES, text : {<<>>}]

\* line 59: text = f"{doc.title()}\n{doc.summary()}"
CleanFormat ==
   /\ calc.op = "clean"
   /\ calc.stage = "document"
   /\ calc' = [calc EXCEPT !.stage = "formatted",
                           !.text = calc.title \o <<"\n">> \o calc.summary]
   /\ UNCHANGED main_vars

\* line 60: text = re.sub(CLEAN, "", text)
CleanSub ==
   /\ calc.op = "clean"
   /\ calc.stage = "formatted"
   /\ calc' = [calc EXCEPT !.stage = "stripped",
                           !.text = re_sub_CLEAN(calc.text)]
   /\ UNCHANGED main_vars

\* line 61: return html.unescape(text)
CleanUnescape ==
   /\ calc.op = "clean"
   /\ calc.stage = "stripped"
   /\ calc' = [calc EXCEPT !.stage = "returned",
                           !.text = returned(html_unescape(calc.text))]
   /\ UNCHANGED main_vars

CleanNext == CleanFormat \/ CleanSub \/ CleanUnescape

CleanSpec == CleanInit /\ [][CleanNext]_vars

(***************************************************************************)
(* The properties.                                                         *)
(***************************************************************************)
ValidPositions == {p \in 0..(Len(urls) - 1) : is_url(strip(urls[p + 1]))}

\* the fetch of an item failed: no connection, an error status, or a body
\* the extraction engine raises on
Failed(outcome) ==
   \/ outcome.kind = "exception"
   \/ /\ outcome.kind = "response"
      /\ \/ raise_for_status(outcome.status)
         \/ outcome.body = "unparseable"

StartsWith(s, prefix) ==
   Len(s) >= Len(prefix) /\ SubSeq(s, 1, Len(prefix)) = prefix

\* a "<" with a ">" somewhere after it
has_tag(text) ==
   \E a \in 1..Len(text) : \E b \in (a + 1)..Len(text) :
      text[a] = "<" /\ text[b] = ">"

\* a character reference: decoding once more changes the text
has_entity(text) == html_unescape(text) # [error |-> "none", text |-> text]

\* C1: whatever the fetch of a valid URL ends with (no connection, an error
\* status, an exception of the extraction engine), no exception leaves
\* extract_text, the text of a failed item is empty, and no item ends the
\* run: a run of read that has ended has processed every valid line.
C1_FailureYieldsEmptyTextAndBatchGoesOn ==
   /\ pc # "aborted"
   /\ \A k \in 1..Len(results) :
         Failed(results[k].outcome) => results[k].text = <<>>
   /\ pc = "done" =>
         \A p \in ValidPositions :
            \E k \in 1..Len(results) : results[k].pos = p

\* C2: a 3xx response gives the empty text, whatever its body, and the
\* address it points to is never requested.
C2_RedirectYieldsEmptyText ==
   \A k \in 1..Len(results) :
      (/\ results[k].outcome.kind = "response"
       /\ results[k].outcome.status \in 300..399)
      => /\ results[k].text = <<>>
         /\ REDIRECT_TARGET \notin requested

\* C3: the text extract_text returns holds no markup tag and no character
\* reference.
C3_ReturnedTextHasNoTagNoEntity ==
   (calc.op = "clean" /\ calc.stage = "returned")
   => ~has_tag(calc.text) /\ ~has_entity(calc.text)

\* C4: when read has ended, the files written in the run are exactly as
\* many as the valid lines of the input file, each with its own name.
C4_OneFileWrittenPerValidLine ==
   pc \in {"done", "aborted"} =>
      /\ Cardinality(dir.written) = Cardinality(ValidPositions)
      /\ dir.written \subseteq DOMAIN dir.files

\* C5: generate_output_name gives different names for different indices,
\* whatever the two URLs.
C5_DifferentIndicesDifferentNames ==
   (calc.op = "name" /\ calc.names # <<>> /\ calc.i # calc.j)
   => calc.names[1] # calc.names[2]

\* the same URL, whose host starts with "1-", named at positions 1 and 11
C5_Witness ==
   /\ calc.op = "name"
   /\ calc.names # <<>>
   /\ calc.i = 1
   /\ calc.j = 11
   /\ calc.urlA = URL_B
   /\ calc.urlB = URL_B

\* C6: after a second run of read on the same file and directory, with each
\* host doing what it did the first time, the directory is as the first run
\* left it: the same names with the same texts, every file of the first run
\* written again and no other.
C6_SecondRunLeavesDirectoryAsFirst ==
   (run = 2 /\ pc = "done") => dir = first

\* a second run has ended that wrote text over a file of the first run
C6_Witness ==
   /\ run = 2
   /\ pc = "done"
   /\ \E n \in dir.written : n \in first.written /\ dir.files[n] # <<>>

\* C7: when __init__ raises (no input file, a suffix that is not .txt, an
\* output path that is a file), no session was made, no directory made, no
\* request sent and no file written.
C7_ConfigurationErrorLeavesNoTrace ==
   pc = "failed" =>
      /\ trace = <<>>
      /\ requested = {}
      /\ results = <<>>
      /\ dir = EMPTY_DIR

\* __init__ raised on its last check, the output path being a file
C7_Witness == pc = "failed" /\ error = "is not a directory"

\* a step of Next can be taken, guard by guard: Construct, ReadOpen, the
\* three steps of the loop (one of which fits every position), Rerun, and
\* the three network steps
CanStep ==
   \/ pc \in {"start", "constructed", "loop"}
   \/ pc = "done" /\ run = 1
   \/ /\ pc = "fetching"
      /\ Event(item.host, item.sends).kind \in {"refuse", "drop", "response"}

\* C8: read always ends: as long as it has not, a step of it or of the host
\* it waits for can be taken, so no request stays without a response or a
\* failure.
C8_ReadNeverWaitsForEver ==
   pc \in {"done", "failed", "aborted"} \/ CanStep

\* C9: the name of each file written starts with the 0-based position of
\* its line in the input file, the lines passed over counted.
C9_IndexIsLinePosition ==
   \A k \in 1..Len(results) :
      /\ StartsWith(results[k].name, IntToStr(results[k].pos) \o <<"-">>)
      /\ strip(urls[results[k].pos + 1]) = results[k].url

\* a file was written for a line that follows a line passed over
C9_Witness ==
   \E k \in 1..Len(results) :
      /\ results[k].pos > 0
      /\ ~is_url(strip(urls[1]))

\* C10: only a connection that is not established makes the session send a
\* request again, at most 3 times; a response with an error status does not.
C10_OnlyRefusedConnectionsAreRetried ==
   /\ item.sends <= 1 + item.refused
   /\ item.sends <= 1 + RetryConnect

=============================================================================
